---- MODULE Spec2Model ----
(***************************************************************************)
(* A model of the hyperbolic command-line client (package cmd).            *)
(*                                                                         *)
(* Spec         one invocation of the instances, terminate or rent         *)
(*              command: credential read, the HTTP requests it issues, the *)
(*              responses the upstream may give, and what it prints.       *)
(* OptionsSpec  fetchOnDemandOptions: two fetch goroutines, three buffered *)
(*              channels and the collecting select loop.                   *)
(* ViewSpec     the rendering of one instance record: its row in the       *)
(*              listing table and its lines in the detail view.            *)
(* UptimeSpec   calculateUptime and formatDuration.                        *)
(* MarketSpec   the table of the spot command: printInstancesTable.         *)
(* AuthSpec     the auth command, run any number of times, and the         *)
(*              credential read of the command that runs after it.         *)
(*                                                                         *)
(* Strings that the code parses or compares (instance IDs, port numbers)   *)
(* are sequences of one-character strings, so that strconv.Atoi and        *)
(* strconv.Itoa are computed rather than assumed; so is an API key, which  *)
(* is trimmed, written as a JSON string and read back.                     *)
(***************************************************************************)
EXTENDS Integers, Sequences, FiniteSets, TLC

VARIABLES
    config,          \* the file ~/.hyperbolic/config.json
    cmd,             \* the command line of this invocation
    pc,              \* position of the command handler
    apiKey,          \* local apiKey of the running handler
    inflight,        \* endpoints with a request sent and no response yet
    reqs,            \* every HTTP request issued so far, in order
    resp,            \* last response received, per endpoint
    spotResponse,    \* string returned by callHyperbolicInstancesAPI
    spotInstances,   \* spotInstancesData.Instances after json.Unmarshal
    vmInstances,     \* result of fetchVMInstances
    bmInstances,     \* result of fetchBMInstances
    vmListing,       \* findOnDemandInstanceType: its VM listing fetch
    bmListing,       \* findOnDemandInstanceType: its bare-metal listing fetch
    rentalID,        \* terminateInstance: the parsed integer ID
    instanceType,    \* terminateOnDemandInstance: "vm" or "bare-metal"
    out,             \* what the command printed, in order
    goVM,            \* fetchOnDemandOptions: the VM-options goroutine
    goBM,            \* fetchOnDemandOptions: the bare-metal-options goroutine
    vmChan,          \* chan VirtualMachineOptions, capacity 1
    bareMetalChan,   \* chan BareMetalOptions, capacity 1
    errChan,         \* chan error, capacity 2
    collector,       \* fetchOnDemandOptions itself: locals and return value
    viewPc,          \* rendering of one record: position
    instance,        \* the record handed to the rendering functions
    row,             \* its row in the listing table
    details,         \* its lines in the detail view
    uptimePc,        \* calculateUptime: position
    startTime,       \* calculateUptime: argument startTime
    endTime,         \* calculateUptime: argument endTime
    now,             \* the wall clock read by time.Now()
    uptime,          \* calculateUptime: the label returned
    marketPc,        \* the spot command: position
    showAll,         \* the spot command: its --all flag
    marketInstances, \* marketplaceData.Instances after json.Unmarshal
    marketTable      \* the rows printInstancesTable appended, in order

termVars == <<vmListing, bmListing, rentalID, instanceType>>

cliVars == <<config, cmd, pc, apiKey, inflight, reqs, resp, spotResponse,
             spotInstances, vmInstances, bmInstances, termVars, out>>

optVars == <<goVM, goBM, vmChan, bareMetalChan, errChan, collector>>

viewVars == <<viewPc, instance, row, details>>

uptimeVars == <<uptimePc, startTime, endTime, now, uptime>>

marketVars == <<marketPc, showAll, marketInstances, marketTable>>

fmtVars == <<viewVars, uptimeVars, marketVars>>

vars == <<cliVars, optVars, fmtVars>>

----------------------------------------------------------------------------
(* Bounds of the model.                                                    *)

\* longest collection an upstream listing returns
MaxLen == 2

\* longest --ports list given to rent
MaxPortArgs == 3

----------------------------------------------------------------------------
(* Strings, strconv.Atoi and strconv.Itoa.                                 *)

Digits == <<"0", "1", "2", "3", "4", "5", "6", "7", "8", "9">>

IsDigit(c) == \E i \in 1..Len(Digits) : Digits[i] = c

DigitVal(c) == (CHOOSE i \in 1..Len(Digits) : Digits[i] = c) - 1

RECURSIVE DigitsVal(_, _)
DigitsVal(s, acc) ==
    IF s = <<>> THEN acc
    ELSE DigitsVal(Tail(s), acc * Len(Digits) + DigitVal(Head(s)))

\* strconv.Atoi: an optional sign, then one or more decimal digits.  The
\* strings of the model are too short for the range error of a 64-bit int.
Atoi(s) ==
    LET signed == s # <<>> /\ Head(s) \in {"+", "-"}
        body   == IF signed THEN Tail(s) ELSE s
    IN  IF body = <<>> \/ \E i \in 1..Len(body) : ~IsDigit(body[i])
        THEN [ok |-> FALSE, val |-> 0]
        ELSE [ok |-> TRUE,
              val |-> IF signed /\ Head(s) = "-"
                      THEN 0 - DigitsVal(body, 0)
                      ELSE DigitsVal(body, 0)]

RECURSIVE NatToStr(_)
NatToStr(n) ==
    IF n < Len(Digits) THEN <<Digits[n + 1]>>
    ELSE NatToStr(n \div Len(Digits)) \o <<Digits[(n % Len(Digits)) + 1]>>

\* strconv.Itoa: the canonical decimal form.
Itoa(n) == IF n < 0 THEN <<"-">> \o NatToStr(0 - n) ELSE NatToStr(n)

----------------------------------------------------------------------------
(* The inputs the model draws from.                                        *)

\* instance IDs given on the command line
IDStrings ==
    { <<"5">>, <<"0", "5">>, <<"+", "5">>, <<"1", "2">>, <<"a">> }

\* IDs of spot instances (strings) and of on-demand rentals (integers)
SpotIDs == { <<"a">>, <<"5">> }

RentalIDs == { 5, 12 }

SeqsUpTo(S, n) == UNION { [1..k -> S] : k \in 0..n }

SpotRecords == { [id |-> i] : i \in SpotIDs }

RentalRecords == { [id |-> i] : i \in RentalIDs }

\* HTTP status codes an upstream answers with
Statuses == { 200, 201, 500 }

Is2xx(status) == status >= 200 /\ status < 300

\* A response body: the collection document the endpoint serves ("list"),
\* some other well-formed JSON object such as {"detail": "..."} ("object"),
\* or text that is not JSON ("garbage").
Bodies(Records) ==
    { [shape |-> "list", items |-> l] : l \in SeqsUpTo(Records, MaxLen) }
    \cup { [shape |-> "object", items |-> <<>>],
           [shape |-> "garbage", items |-> <<>>] }

NoBody == [shape |-> "none", items |-> <<>>]

\* What client.Do gives: a transport error, or a status and a body.
Responses(Records) ==
    { [got |-> TRUE, err |-> TRUE, status |-> 0, body |-> NoBody] }
    \cup { [got |-> TRUE, err |-> FALSE, status |-> s, body |-> b] :
             s \in Statuses, b \in Bodies(Records) }

NoResp == [got |-> FALSE, err |-> FALSE, status |-> 0, body |-> NoBody]

----------------------------------------------------------------------------
(* The credential store (config.go).                                       *)

\* An API key is a sequence of characters; "0xFF" is a byte that is no valid
\* UTF-8, "U+FFFD" the Unicode replacement character.  The api_key of the
\* config file is the content of its JSON string, escapes included.

\* json.MarshalIndent of Config, the string: a quote is escaped, a byte that
\* is no valid UTF-8 is written as the escape of U+FFFD.
MarshalString(str) ==
    [i \in 1..Len(str) |->
        CASE str[i] = "\"" -> "\\\""
          [] str[i] = "0xFF" -> "\\ufffd"
          [] OTHER -> str[i]]

\* json.Unmarshal into Config, the string: an escape gives its character.
UnmarshalString(text) ==
    [i \in 1..Len(text) |->
        CASE text[i] = "\\\"" -> "\""
          [] text[i] = "\\ufffd" -> "U+FFFD"
          [] OTHER -> text[i]]

\* The states of the config file: absent, unparseable, without a key,
\* with a key.
ConfigStates ==
    { [exists |-> FALSE, valid |-> FALSE, api_key |-> <<>>],
      [exists |-> TRUE,  valid |-> FALSE, api_key |-> <<>>],
      [exists |-> TRUE,  valid |-> TRUE,  api_key |-> <<>>],
      [exists |-> TRUE,  valid |-> TRUE,  api_key |-> <<"k", "1">>] }

LoadConfig(c) ==
    IF ~c.exists THEN [ok |-> FALSE, api_key |-> <<>>]
    ELSE IF ~c.valid THEN [ok |-> FALSE, api_key |-> <<>>]
    ELSE [ok |-> TRUE, api_key |-> UnmarshalString(c.api_key)]

\* A faulty GetAPIKey: the empty api_key is handed out as a key.
GetAPIKeyNoEmptyCheck(c) ==
    LET l == LoadConfig(c)
    IN  IF ~l.ok THEN [ok |-> FALSE, key |-> <<>>]
        ELSE [ok |-> TRUE, key |-> l.api_key]

GetAPIKey(c) ==
    LET l == LoadConfig(c)
    IN  IF ~l.ok THEN [ok |-> FALSE, key |-> <<>>]
        ELSE IF l.api_key = <<>> THEN [ok |-> FALSE, key |-> <<>>]
        ELSE [ok |-> TRUE, key |-> l.api_key]

----------------------------------------------------------------------------
(* HTTP endpoints and requests.                                            *)

SpotListEP == "GET /v1/marketplace/instances"

VMRentalsEP == "GET /v2/marketplace/virtual-machine-rentals"

BMRentalsEP == "GET /v2/marketplace/bare-metal-rentals"

SpotTerminateEP == "POST /v1/marketplace/instances/terminate"

VMTerminateEP == "POST /v2/marketplace/virtual-machine-rentals/terminate"

BMTerminateEP == "POST /v2/marketplace/bare-metal-rentals/terminate"

SpotCreateEP == "POST /v1/marketplace/instances/create"

VMCreateEP == "POST /v2/marketplace/virtual-machine-rentals"

BMCreateEP == "POST /v2/marketplace/bare-metal-rentals"

Endpoints ==
    { SpotListEP, VMRentalsEP, BMRentalsEP, SpotTerminateEP, VMTerminateEP,
      BMTerminateEP, SpotCreateEP, VMCreateEP, BMCreateEP }

ListEndpoints == { SpotListEP, VMRentalsEP, BMRentalsEP }

TerminateEndpoints == { SpotTerminateEP, VMTerminateEP, BMTerminateEP }

CreateEndpoints == { SpotCreateEP, VMCreateEP, BMCreateEP }

\* A request as it leaves client.Do: endpoint, bearer token, JSON payload.
Request(ep, key, payload) == [ep |-> ep, bearer |-> key, payload |-> payload]

NoPayload == [kind |-> "none"]

\* client.Do is entered: the request is on the wire.
Send(ep, payload) ==
    /\ reqs' = Append(reqs, Request(ep, apiKey, payload))
    /\ inflight' = inflight \cup {ep}

\* client.Do returns r for the request to ep.
Receive(ep, r) ==
    /\ inflight' = inflight \ {ep}
    /\ resp' = [resp EXCEPT ![ep] = r]

\* What the command prints.
Error(stage) == [kind |-> "error", stage |-> stage]

Finish(items) ==
    /\ out' = out \o items
    /\ pc' = "done"

----------------------------------------------------------------------------
(* The command line.                                                       *)

Command(name, args, json, ports, itype, ntype) ==
    [name |-> name, args |-> args, json |-> json, ports |-> ports,
     instanceType |-> itype, networkType |-> ntype]

NoCommand == Command("none", <<>>, FALSE, <<>>, "", "")

\* hyperbolic instances [instance-id] [--json]    (cobra.MaximumNArgs(1))
InvokeInstances ==
    /\ pc = "idle"
    /\ \E args \in {<<>>} \cup { <<i>> : i \in IDStrings }, json \in BOOLEAN :
         cmd' = Command("instances", args, json, <<>>, "", "")
    /\ pc' = "spot_key"
    /\ UNCHANGED <<config, apiKey, inflight, reqs, resp, spotResponse,
                   spotInstances, vmInstances, bmInstances, termVars, out, optVars, fmtVars>>

----------------------------------------------------------------------------
(* instances (instances.go).                                               *)

\* callHyperbolicInstancesAPI, the credential read.
SpotGetKey ==
    /\ pc = "spot_key"
    /\ LET k == GetAPIKey(config)
       IN  IF k.ok
           THEN /\ apiKey' = k.key
                /\ pc' = "spot_send"
                /\ out' = out
           ELSE /\ apiKey' = apiKey
                /\ Finish(<<Error("credential")>>)
    /\ UNCHANGED <<config, cmd, inflight, reqs, resp, spotResponse,
                   spotInstances, vmInstances, bmInstances, termVars, optVars, fmtVars>>

\* A faulty SpotSend: the handler goes on without waiting for the response.
SpotSendNoWait ==
    /\ pc = "spot_send"
    /\ Send(SpotListEP, NoPayload)
    /\ pc' = "od_key"
    /\ UNCHANGED <<config, cmd, apiKey, resp, spotResponse, spotInstances,
                   vmInstances, bmInstances, termVars, out,
                   optVars, fmtVars>>

\* callHyperbolicInstancesAPI, client.Do is called and blocks.
SpotSend ==
    /\ pc = "spot_send"
    /\ Send(SpotListEP, NoPayload)
    /\ pc' = "spot_wait"
    /\ UNCHANGED <<config, cmd, apiKey, resp, spotResponse, spotInstances,
                   vmInstances, bmInstances, termVars, out,
                   optVars, fmtVars>>

\* callHyperbolicInstancesAPI, from the return of client.Do: a transport
\* error fails; otherwise the body is returned whatever the status is.
SpotRecv ==
    /\ pc = "spot_wait"
    /\ \E r \in Responses(SpotRecords) :
         /\ Receive(SpotListEP, r)
         /\ IF r.err
            THEN /\ Finish(<<Error("spot-fetch")>>)
                 /\ spotResponse' = spotResponse
            ELSE /\ spotResponse' = r.body
                 /\ pc' = "od_key"
                 /\ out' = out
    /\ UNCHANGED <<config, cmd, apiKey, reqs, spotInstances, vmInstances,
                   bmInstances, termVars, optVars, fmtVars>>

\* fetchOnDemandInstances, the credential read.
OnDemandGetKey ==
    /\ pc = "od_key"
    /\ LET k == GetAPIKey(config)
       IN  IF k.ok
           THEN /\ apiKey' = k.key
                /\ pc' = "vm_send"
                /\ out' = out
           ELSE /\ apiKey' = apiKey
                /\ Finish(<<Error("ondemand-fetch")>>)
    /\ UNCHANGED <<config, cmd, inflight, reqs, resp, spotResponse,
                   spotInstances, vmInstances, bmInstances, termVars, optVars, fmtVars>>

\* json.Unmarshal(body, &[]OnDemandInstance): only a JSON array parses.
ParseRentals(body) ==
    IF body.shape = "list" THEN [ok |-> TRUE, items |-> body.items]
    ELSE [ok |-> FALSE, items |-> <<>>]

\* The result of fetchVMInstances / fetchBMInstances for response r.
FetchRentals(r) ==
    IF r.err THEN [ok |-> FALSE, items |-> <<>>]
    ELSE IF r.status # 200 THEN [ok |-> FALSE, items |-> <<>>]
    ELSE ParseRentals(r.body)

\* fetchVMInstances, client.Do is called and blocks.
VMSend ==
    /\ pc = "vm_send"
    /\ Send(VMRentalsEP, NoPayload)
    /\ pc' = "vm_wait"
    /\ UNCHANGED <<config, cmd, apiKey, resp, spotResponse, spotInstances,
                   vmInstances, bmInstances, termVars, out,
                   optVars, fmtVars>>

\* fetchVMInstances from the return of client.Do, and the error check of
\* fetchOnDemandInstances.
VMRecv ==
    /\ pc = "vm_wait"
    /\ \E r \in Responses(RentalRecords) :
         /\ Receive(VMRentalsEP, r)
         /\ LET f == FetchRentals(r)
            IN  IF f.ok
                THEN /\ vmInstances' = f.items
                     /\ pc' = "bm_send"
                     /\ out' = out
                ELSE /\ vmInstances' = vmInstances
                     /\ Finish(<<Error("ondemand-fetch")>>)
    /\ UNCHANGED <<config, cmd, apiKey, reqs, spotResponse, spotInstances,
                   bmInstances, termVars, optVars, fmtVars>>

\* fetchBMInstances, client.Do is called and blocks.
BMSend ==
    /\ pc = "bm_send"
    /\ Send(BMRentalsEP, NoPayload)
    /\ pc' = "bm_wait"
    /\ UNCHANGED <<config, cmd, apiKey, resp, spotResponse, spotInstances,
                   vmInstances, bmInstances, termVars, out,
                   optVars, fmtVars>>

\* fetchBMInstances from the return of client.Do.  On failure
\* fetchOnDemandInstances returns nil, nil, err: the VM result is dropped.
BMRecv ==
    /\ pc = "bm_wait"
    /\ \E r \in Responses(RentalRecords) :
         /\ Receive(BMRentalsEP, r)
         /\ LET f == FetchRentals(r)
            IN  IF f.ok
                THEN /\ bmInstances' = f.items
                     /\ vmInstances' = vmInstances
                     /\ pc' = "spot_parse"
                     /\ out' = out
                ELSE /\ bmInstances' = bmInstances
                     /\ vmInstances' = <<>>
                     /\ Finish(<<Error("ondemand-fetch")>>)
    /\ UNCHANGED <<config, cmd, apiKey, reqs, spotResponse, spotInstances,
                   termVars, optVars, fmtVars>>

\* json.Unmarshal(body, &InstancesResponse): a JSON object parses, and one
\* without an "instances" member leaves Instances empty.
ParseSpot(body) ==
    IF body.shape = "list" THEN [ok |-> TRUE, items |-> body.items]
    ELSE IF body.shape = "object" THEN [ok |-> TRUE, items |-> <<>>]
    ELSE [ok |-> FALSE, items |-> <<>>]

\* instancesCmd.Run, json.Unmarshal of the spot response.
SpotParse ==
    /\ pc = "spot_parse"
    /\ LET p == ParseSpot(spotResponse)
       IN  IF p.ok
           THEN /\ spotInstances' = p.items
                /\ pc' = "show"
                /\ out' = out
           ELSE /\ spotInstances' = spotInstances
                /\ Finish(<<Error("spot-parse")>>)
    /\ UNCHANGED <<config, cmd, apiKey, inflight, reqs, resp, spotResponse,
                   vmInstances, bmInstances, termVars, optVars, fmtVars>>

\* The loops of showInstanceDetails: the index of the first record, from i
\* on, whose ID equals instanceID, or 0.
RECURSIVE ScanSpot(_, _, _)
ScanSpot(instances, instanceID, i) ==
    IF i > Len(instances) THEN 0
    ELSE IF instances[i].id = instanceID THEN i
    ELSE ScanSpot(instances, instanceID, i + 1)

RECURSIVE ScanOnDemand(_, _, _)
ScanOnDemand(instances, instanceID, i) ==
    IF i > Len(instances) THEN 0
    ELSE IF Itoa(instances[i].id) = instanceID THEN i
    ELSE ScanOnDemand(instances, instanceID, i + 1)

Detail(family, idx, record, json) ==
    [kind |-> "detail", family |-> family, idx |-> idx, record |-> record,
     json |-> json]

NotFound == [kind |-> "notfound"]

\* A faulty showInstanceDetails: bare metal is searched before VM.
showInstanceDetailsBMFirst(spot, vm, bm, instanceID, jsonFormat) ==
    LET s == ScanSpot(spot, instanceID, 1)
        v == ScanOnDemand(vm, instanceID, 1)
        b == ScanOnDemand(bm, instanceID, 1)
    IN  IF s > 0 THEN <<Detail("Spot", s, spot[s], jsonFormat)>>
        ELSE IF b > 0 THEN <<Detail("Bare Metal", b, bm[b], jsonFormat)>>
        ELSE IF v > 0 THEN <<Detail("VM", v, vm[v], jsonFormat)>>
        ELSE <<NotFound>>

\* showInstanceDetails: what it prints.
showInstanceDetails(spot, vm, bm, instanceID, jsonFormat) ==
    LET s == ScanSpot(spot, instanceID, 1)
        v == ScanOnDemand(vm, instanceID, 1)
        b == ScanOnDemand(bm, instanceID, 1)
    IN  IF s > 0 THEN <<Detail("Spot", s, spot[s], jsonFormat)>>
        ELSE IF v > 0 THEN <<Detail("VM", v, vm[v], jsonFormat)>>
        ELSE IF b > 0 THEN <<Detail("Bare Metal", b, bm[b], jsonFormat)>>
        ELSE <<NotFound>>

Row(tbl, family, idx, id) ==
    [kind |-> "row", tbl |-> tbl, family |-> family, idx |-> idx, id |-> id]

\* printSpotInstancesTable: one row per instance, in order.
printSpotInstancesTable(instances) ==
    [i \in 1..Len(instances) |-> Row("SPOT", "Spot", i, instances[i].id)]

\* A faulty printOnDemandInstancesTable: every row is tagged Virtual
\* Machine.
printOnDemandInstancesTableOneTag(vm, bm) ==
    [i \in 1..Len(vm) |->
        Row("ON-DEMAND", "Virtual Machine", i, Itoa(vm[i].id))]
    \o [i \in 1..Len(bm) |->
        Row("ON-DEMAND", "Virtual Machine", i, Itoa(bm[i].id))]

\* printOnDemandInstancesTable: the VM rows, then the bare-metal rows.
printOnDemandInstancesTable(vm, bm) ==
    [i \in 1..Len(vm) |->
        Row("ON-DEMAND", "Virtual Machine", i, Itoa(vm[i].id))]
    \o [i \in 1..Len(bm) |->
        Row("ON-DEMAND", "Bare Metal", i, Itoa(bm[i].id))]

\* printInstancesTables.
printInstancesTables(spot, vm, bm) ==
    (IF Len(spot) > 0 THEN printSpotInstancesTable(spot) ELSE <<>>)
    \o (IF Len(vm) > 0 \/ Len(bm) > 0
        THEN printOnDemandInstancesTable(vm, bm) ELSE <<>>)
    \o (IF Len(spot) = 0 /\ Len(vm) = 0 /\ Len(bm) = 0
        THEN <<[kind |-> "empty"]>> ELSE <<>>)

\* instancesCmd.Run after the three collections are in hand: the detail
\* view, the raw JSON dump, or the tables.
Show ==
    /\ pc = "show"
    /\ Finish(IF Len(cmd.args) > 0
              THEN showInstanceDetails(spotInstances, vmInstances,
                                       bmInstances, cmd.args[1], cmd.json)
              ELSE IF cmd.json
              THEN <<[kind |-> "json", spot |-> spotInstances,
                      vm |-> vmInstances, bm |-> bmInstances]>>
              ELSE printInstancesTables(spotInstances, vmInstances,
                                        bmInstances))
    /\ UNCHANGED <<config, cmd, apiKey, inflight, reqs, resp, spotResponse,
                   spotInstances, vmInstances, bmInstances, termVars, optVars, fmtVars>>

----------------------------------------------------------------------------
(* terminate (terminate.go, the version with on-demand routing).           *)

\* hyperbolic terminate <instance-id>    (cobra.ExactArgs(1))
InvokeTerminate ==
    /\ pc = "idle"
    /\ \E i \in IDStrings \cup {<<>>} :
         cmd' = Command("terminate", <<i>>, FALSE, <<>>, "", "")
    /\ pc' = "t_run"
    /\ UNCHANGED <<config, apiKey, inflight, reqs, resp, spotResponse,
                   spotInstances, vmInstances, bmInstances, termVars, out,
                   optVars, fmtVars>>

\* terminateCmd.Run: an empty ID is refused before anything else.
TerminateRun ==
    /\ pc = "t_run"
    /\ IF cmd.args[1] = <<>>
       THEN Finish(<<Error("usage")>>)
       ELSE /\ pc' = "t_key"
            /\ out' = out
    /\ UNCHANGED <<config, cmd, apiKey, inflight, reqs, resp, spotResponse,
                   spotInstances, vmInstances, bmInstances, termVars,
                   optVars, fmtVars>>

\* terminateInstance, the credential read.
TerminateGetKey ==
    /\ pc = "t_key"
    /\ LET k == GetAPIKey(config)
       IN  IF k.ok
           THEN /\ apiKey' = k.key
                /\ pc' = "t_route"
                /\ out' = out
           ELSE /\ apiKey' = apiKey
                /\ Finish(<<Error("credential")>>)
    /\ UNCHANGED <<config, cmd, inflight, reqs, resp, spotResponse,
                   spotInstances, vmInstances, bmInstances, termVars,
                   optVars, fmtVars>>

\* A faulty routing: every ID goes to the spot endpoint.
terminateInstanceRouteAllSpot(instanceID) ==
    [family |-> "spot", rentalID |-> 0]

\* terminateInstance: an ID that strconv.Atoi accepts is an on-demand
\* rental, any other ID is a spot instance.
terminateInstanceRoute(instanceID) ==
    LET a == Atoi(instanceID)
    IN  IF a.ok THEN [family |-> "ondemand", rentalID |-> a.val]
        ELSE [family |-> "spot", rentalID |-> 0]

TerminateRoute ==
    /\ pc = "t_route"
    /\ LET r == terminateInstanceRoute(cmd.args[1])
       IN  /\ rentalID' = r.rentalID
           /\ pc' = IF r.family = "ondemand" THEN "tv_send" ELSE "ts_send"
    /\ UNCHANGED <<config, cmd, apiKey, inflight, reqs, resp, spotResponse,
                   spotInstances, vmInstances, bmInstances, vmListing,
                   bmListing, instanceType, out, optVars, fmtVars>>

\* What a POST endpoint (terminate, create) may answer.
PostResponses ==
    { [got |-> TRUE, err |-> TRUE, status |-> 0, body |-> NoBody] }
    \cup { [got |-> TRUE, err |-> FALSE, status |-> s,
            body |-> [shape |-> sh, items |-> <<>>]] :
             s \in Statuses, sh \in {"object", "garbage"} }

\* The check both terminate functions and both rent functions make of a
\* response: StatusOK and StatusCreated are success.
PostResult(r) ==
    IF r.err THEN "request"
    ELSE IF r.status # 200 /\ r.status # 201 THEN "api"
    ELSE "ok"

\* terminateSpotInstance, client.Do is called and blocks.
TerminateSpotSend ==
    /\ pc = "ts_send"
    /\ Send(SpotTerminateEP, [kind |-> "terminate-spot", id |-> cmd.args[1]])
    /\ pc' = "ts_wait"
    /\ UNCHANGED <<config, cmd, apiKey, resp, spotResponse, spotInstances,
                   vmInstances, bmInstances, termVars, out, optVars, fmtVars>>

\* terminateSpotInstance from the return of client.Do, and the message of
\* terminateCmd.Run.
TerminateSpotRecv ==
    /\ pc = "ts_wait"
    /\ \E r \in PostResponses :
         /\ Receive(SpotTerminateEP, r)
         /\ Finish(IF PostResult(r) = "ok"
                   THEN <<[kind |-> "success", family |-> "spot"]>>
                   ELSE <<Error(PostResult(r))>>)
    /\ UNCHANGED <<config, cmd, apiKey, reqs, spotResponse, spotInstances,
                   vmInstances, bmInstances, termVars, optVars, fmtVars>>

\* fetchVMInstancesForTerminate / fetchBMInstancesForTerminate for
\* response r: err is non-nil on a transport error, a status other than
\* 200, or a body that is no JSON array.
FetchForTerminate(r) ==
    IF r.err THEN [fetched |-> TRUE, ok |-> FALSE, items |-> <<>>]
    ELSE IF r.status # 200
    THEN [fetched |-> TRUE, ok |-> FALSE, items |-> <<>>]
    ELSE IF r.body.shape = "list"
    THEN [fetched |-> TRUE, ok |-> TRUE, items |-> r.body.items]
    ELSE [fetched |-> TRUE, ok |-> FALSE, items |-> <<>>]

NotFetched == [fetched |-> FALSE, ok |-> FALSE, items |-> <<>>]

\* The loops of findOnDemandInstanceType: they run only when err == nil.
RECURSIVE ScanListing(_, _, _)
ScanListing(instances, id, i) ==
    IF i > Len(instances) THEN FALSE
    ELSE IF instances[i].id = id THEN TRUE
    ELSE ScanListing(instances, id, i + 1)

FoundIn(listing, id) == listing.ok /\ ScanListing(listing.items, id, 1)

\* findOnDemandInstanceType, the VM listing request.
TerminateVMListSend ==
    /\ pc = "tv_send"
    /\ Send(VMRentalsEP, NoPayload)
    /\ pc' = "tv_wait"
    /\ UNCHANGED <<config, cmd, apiKey, resp, spotResponse, spotInstances,
                   vmInstances, bmInstances, termVars, out, optVars, fmtVars>>

\* findOnDemandInstanceType, lines 185-192.
TerminateVMListRecv ==
    /\ pc = "tv_wait"
    /\ \E r \in Responses(RentalRecords) :
         /\ Receive(VMRentalsEP, r)
         /\ vmListing' = FetchForTerminate(r)
         /\ IF FoundIn(FetchForTerminate(r), rentalID)
            THEN /\ instanceType' = "vm"
                 /\ pc' = "to_send"
            ELSE /\ instanceType' = instanceType
                 /\ pc' = "tb_send"
    /\ UNCHANGED <<config, cmd, apiKey, reqs, spotResponse, spotInstances,
                   vmInstances, bmInstances, bmListing, rentalID, out,
                   optVars, fmtVars>>

\* findOnDemandInstanceType, the bare-metal listing request.
TerminateBMListSend ==
    /\ pc = "tb_send"
    /\ Send(BMRentalsEP, NoPayload)
    /\ pc' = "tb_wait"
    /\ UNCHANGED <<config, cmd, apiKey, resp, spotResponse, spotInstances,
                   vmInstances, bmInstances, termVars, out, optVars, fmtVars>>

\* findOnDemandInstanceType, lines 195-204, and the error return of
\* terminateOnDemandInstance.
TerminateBMListRecv ==
    /\ pc = "tb_wait"
    /\ \E r \in Responses(RentalRecords) :
         /\ Receive(BMRentalsEP, r)
         /\ bmListing' = FetchForTerminate(r)
         /\ IF FoundIn(FetchForTerminate(r), rentalID)
            THEN /\ instanceType' = "bare-metal"
                 /\ pc' = "to_send"
                 /\ out' = out
            ELSE /\ instanceType' = instanceType
                 /\ Finish(<<Error("not-found")>>)
    /\ UNCHANGED <<config, cmd, apiKey, reqs, spotResponse, spotInstances,
                   vmInstances, bmInstances, vmListing, rentalID, optVars, fmtVars>>

\* A faulty endpoint choice: the two on-demand endpoints are exchanged.
TerminateEndpointSwapped(type) ==
    IF type = "vm" THEN BMTerminateEP ELSE VMTerminateEP

\* terminateOnDemandInstance: the endpoint for an instance type.
TerminateEndpoint(type) ==
    IF type = "vm" THEN VMTerminateEP ELSE BMTerminateEP

\* terminateOnDemandInstance, client.Do is called and blocks.
TerminateOnDemandSend ==
    /\ pc = "to_send"
    /\ Send(TerminateEndpoint(instanceType),
            [kind |-> "terminate-ondemand", rentalId |-> rentalID])
    /\ pc' = "to_wait"
    /\ UNCHANGED <<config, cmd, apiKey, resp, spotResponse, spotInstances,
                   vmInstances, bmInstances, termVars, out, optVars, fmtVars>>

\* terminateOnDemandInstance from the return of client.Do.
TerminateOnDemandRecv ==
    /\ pc = "to_wait"
    /\ \E r \in PostResponses :
         /\ Receive(TerminateEndpoint(instanceType), r)
         /\ Finish(IF PostResult(r) = "ok"
                   THEN <<[kind |-> "success", family |-> instanceType]>>
                   ELSE <<Error(PostResult(r))>>)
    /\ UNCHANGED <<config, cmd, apiKey, reqs, spotResponse, spotInstances,
                   vmInstances, bmInstances, termVars, optVars, fmtVars>>

----------------------------------------------------------------------------
(* rent (rent.go).                                                         *)

\* --ports values given on the command line
PortStrings ==
    { <<"8", "0">>, <<"0">>, <<"x">>, <<"6", "5", "5", "3", "6">> }

InstanceTypes == { "virtual-machine", "bare-metal", "container" }

NetworkTypes == { "ethernet", "infiniband", "" }

\* rentSpotInstance: at most this many ports
PortLimit == 2

\* rentSpotInstance: the valid port range
MinPort == 1

MaxPort == 65535

\* hyperbolic rent ... and hyperbolic rent spot ...: both run
\* rentSpotInstance.  Cluster name, node name and GPU count are copied into
\* the request unchecked and are left out.
InvokeRentSpot ==
    /\ pc = "idle"
    /\ \E n \in {"rent", "rent spot"},
          ports \in SeqsUpTo(PortStrings, MaxPortArgs) :
         cmd' = Command(n, <<>>, FALSE, ports, "", "")
    /\ pc' = "rs_validate"
    /\ UNCHANGED <<config, apiKey, inflight, reqs, resp, spotResponse,
                   spotInstances, vmInstances, bmInstances, termVars, out,
                   optVars, fmtVars>>

\* hyperbolic rent ondemand --instance-type T --network-type N
InvokeRentOnDemand ==
    /\ pc = "idle"
    /\ \E t \in InstanceTypes, n \in NetworkTypes :
         cmd' = Command("rent ondemand", <<>>, FALSE, <<>>, t, n)
    /\ pc' = "ro_validate"
    /\ UNCHANGED <<config, apiKey, inflight, reqs, resp, spotResponse,
                   spotInstances, vmInstances, bmInstances, termVars, out,
                   optVars, fmtVars>>

\* rentSpotInstance, the loop over portStrings: the ports parsed so far, or
\* the first port that is no integer or is out of range.
RECURSIVE ParsePorts(_, _, _)
ParsePorts(portStrings, i, ports) ==
    IF i > Len(portStrings) THEN [ok |-> TRUE, ports |-> ports]
    ELSE LET a == Atoi(portStrings[i])
         IN  IF ~a.ok THEN [ok |-> FALSE, ports |-> ports]
             ELSE IF a.val < MinPort \/ a.val > MaxPort
             THEN [ok |-> FALSE, ports |-> ports]
             ELSE ParsePorts(portStrings, i + 1, Append(ports, a.val))

\* A faulty ValidatePorts: any number of ports is accepted.
ValidatePortsNoLimit(portStrings) == ParsePorts(portStrings, 1, <<>>)

\* rentSpotInstance, lines 134-152.
ValidatePorts(portStrings) ==
    IF Len(portStrings) > PortLimit THEN [ok |-> FALSE, ports |-> <<>>]
    ELSE ParsePorts(portStrings, 1, <<>>)

RentSpotValidate ==
    /\ pc = "rs_validate"
    /\ IF ValidatePorts(cmd.ports).ok
       THEN /\ pc' = "rs_key"
            /\ out' = out
       ELSE Finish(<<Error("validation")>>)
    /\ UNCHANGED <<config, cmd, apiKey, inflight, reqs, resp, spotResponse,
                   spotInstances, vmInstances, bmInstances, termVars,
                   optVars, fmtVars>>

\* rentSpotInstance, the credential read.
RentSpotGetKey ==
    /\ pc = "rs_key"
    /\ LET k == GetAPIKey(config)
       IN  IF k.ok
           THEN /\ apiKey' = k.key
                /\ pc' = "rs_send"
                /\ out' = out
           ELSE /\ apiKey' = apiKey
                /\ Finish(<<Error("credential")>>)
    /\ UNCHANGED <<config, cmd, inflight, reqs, resp, spotResponse,
                   spotInstances, vmInstances, bmInstances, termVars,
                   optVars, fmtVars>>

\* rentSpotInstance, client.Do is called and blocks.  The image is part of
\* the request only when ports were given.
RentSpotSend ==
    /\ pc = "rs_send"
    /\ Send(SpotCreateEP,
            [kind |-> "rent-spot", ports |-> ValidatePorts(cmd.ports).ports,
             image |-> Len(ValidatePorts(cmd.ports).ports) > 0])
    /\ pc' = "rs_wait"
    /\ UNCHANGED <<config, cmd, apiKey, resp, spotResponse, spotInstances,
                   vmInstances, bmInstances, termVars, out, optVars, fmtVars>>

\* rentSpotInstance from the return of client.Do.
RentSpotRecv ==
    /\ pc = "rs_wait"
    /\ \E r \in PostResponses :
         /\ Receive(SpotCreateEP, r)
         /\ Finish(IF PostResult(r) = "ok"
                   THEN <<[kind |-> "success", family |-> "spot"]>>
                   ELSE <<Error(PostResult(r))>>)
    /\ UNCHANGED <<config, cmd, apiKey, reqs, spotResponse, spotInstances,
                   vmInstances, bmInstances, termVars, optVars, fmtVars>>

\* rentOnDemandInstance, lines 240-252.
ValidateOnDemand(itype, ntype) ==
    IF itype # "virtual-machine" /\ itype # "bare-metal" THEN FALSE
    ELSE IF itype = "bare-metal" /\ ntype # "ethernet" /\ ntype # "infiniband"
    THEN FALSE
    ELSE TRUE

RentOnDemandValidate ==
    /\ pc = "ro_validate"
    /\ IF ValidateOnDemand(cmd.instanceType, cmd.networkType)
       THEN /\ pc' = "ro_key"
            /\ out' = out
       ELSE Finish(<<Error("validation")>>)
    /\ UNCHANGED <<config, cmd, apiKey, inflight, reqs, resp, spotResponse,
                   spotInstances, vmInstances, bmInstances, termVars,
                   optVars, fmtVars>>

\* rentOnDemandInstance, the credential read.
RentOnDemandGetKey ==
    /\ pc = "ro_key"
    /\ LET k == GetAPIKey(config)
       IN  IF k.ok
           THEN /\ apiKey' = k.key
                /\ pc' = "ro_send"
                /\ out' = out
           ELSE /\ apiKey' = apiKey
                /\ Finish(<<Error("credential")>>)
    /\ UNCHANGED <<config, cmd, inflight, reqs, resp, spotResponse,
                   spotInstances, vmInstances, bmInstances, termVars,
                   optVars, fmtVars>>

\* rentOnDemandInstance: the endpoint for an instance type.
CreateEndpoint(itype) ==
    IF itype = "virtual-machine" THEN VMCreateEP ELSE BMCreateEP

\* rentOnDemandInstance, client.Do is called and blocks.
RentOnDemandSend ==
    /\ pc = "ro_send"
    /\ Send(CreateEndpoint(cmd.instanceType),
            IF cmd.instanceType = "virtual-machine"
            THEN [kind |-> "rent-vm"]
            ELSE [kind |-> "rent-bm", networkType |-> cmd.networkType])
    /\ pc' = "ro_wait"
    /\ UNCHANGED <<config, cmd, apiKey, resp, spotResponse, spotInstances,
                   vmInstances, bmInstances, termVars, out, optVars, fmtVars>>

\* rentOnDemandInstance from the return of client.Do.
RentOnDemandRecv ==
    /\ pc = "ro_wait"
    /\ \E r \in PostResponses :
         /\ Receive(CreateEndpoint(cmd.instanceType), r)
         /\ Finish(IF PostResult(r) = "ok"
                   THEN <<[kind |-> "success", family |-> cmd.instanceType]>>
                   ELSE <<Error(PostResult(r))>>)
    /\ UNCHANGED <<config, cmd, apiKey, reqs, spotResponse, spotInstances,
                   vmInstances, bmInstances, termVars, optVars, fmtVars>>

----------------------------------------------------------------------------
(* auth (auth.go) and the commands that read the credential after it.      *)

\* longest argument of auth
MaxKeyLen == 3

\* arguments of auth: characters of a key, a space, a quote, a byte that is
\* no valid UTF-8
KeyArgs == SeqsUpTo({"k", " ", "\"", "0xFF"}, MaxKeyLen)

\* strings.TrimSpace
RECURSIVE TrimSpace(_)
TrimSpace(str) ==
    IF str = <<>> THEN str
    ELSE IF Head(str) = " " THEN TrimSpace(Tail(str))
    ELSE IF str[Len(str)] = " " THEN TrimSpace(SubSeq(str, 1, Len(str) - 1))
    ELSE str

\* SaveConfig when MkdirAll and WriteFile succeed: the file it leaves.
SaveConfig(str) ==
    [exists |-> TRUE, valid |-> TRUE, api_key |-> MarshalString(str)]

\* hyperbolic auth <api-key>    (cobra.ExactArgs(1)); each invocation is a
\* new process.
InvokeAuth ==
    /\ pc \in {"idle", "done", "key_read"}
    /\ \E k \in KeyArgs : cmd' = Command("auth", <<k>>, FALSE, <<>>, "", "")
    /\ pc' = "auth_run"
    /\ out' = <<>>
    /\ apiKey' = <<>>
    /\ UNCHANGED <<config, inflight, reqs, resp, spotResponse, spotInstances,
                   vmInstances, bmInstances, termVars, optVars, fmtVars>>

\* authCmd.Run.  SaveConfig fails when MkdirAll fails or when WriteFile
\* fails, before the file was opened or after it was truncated.
AuthRun ==
    /\ pc = "auth_run"
    /\ apiKey' = TrimSpace(cmd.args[1])
    /\ IF apiKey' = <<>>
       THEN /\ config' = config
            /\ Finish(<<Error("usage")>>)
       ELSE \/ /\ config' = SaveConfig(apiKey')
               /\ Finish(<<[kind |-> "success", family |-> "auth"]>>)
            \/ /\ config' \in {config, [exists |-> TRUE, valid |-> FALSE,
                                         api_key |-> <<>>]}
               /\ Finish(<<Error("save")>>)
    /\ UNCHANGED <<cmd, inflight, reqs, resp, spotResponse, spotInstances,
                   vmInstances, bmInstances, termVars, optVars, fmtVars>>

\* The command that runs next (instances, terminate, rent, ondemand) calls
\* GetAPIKey.
NextGetAPIKey ==
    /\ pc = "done"
    /\ cmd.name = "auth"
    /\ LET k == GetAPIKey(config)
       IN  /\ apiKey' = k.key
           /\ out' = out \o (IF k.ok THEN <<[kind |-> "key", key |-> k.key]>>
                             ELSE <<Error("credential")>>)
    /\ pc' = "key_read"
    /\ UNCHANGED <<config, cmd, inflight, reqs, resp, spotResponse,
                   spotInstances, vmInstances, bmInstances, termVars,
                   optVars, fmtVars>>

AuthNext ==
    \/ InvokeAuth
    \/ AuthRun
    \/ NextGetAPIKey

----------------------------------------------------------------------------
(* The rendering of one instance record (instances.go).                    *)
(*                                                                         *)
(* A GPU model, a status, a count and a price are sequences of characters, *)
(* so that strings.ReplaceAll, strings.ToLower and the %d and %.2f verbs   *)
(* are computed.  An SSH string is a sequence of the pieces fmt.Sprintf    *)
(* joins; the empty string is the empty sequence.                          *)

\* most records in meta.node_networking
MaxNodes == 2

UpperLetters ==
    <<"A", "B", "C", "D", "E", "F", "G", "H", "I", "J", "K", "L", "M",
      "N", "O", "P", "Q", "R", "S", "T", "U", "V", "W", "X", "Y", "Z">>

LowerLetters ==
    <<"a", "b", "c", "d", "e", "f", "g", "h", "i", "j", "k", "l", "m",
      "n", "o", "p", "q", "r", "s", "t", "u", "v", "w", "x", "y", "z">>

\* strings.ToLower
ToLower(s) ==
    [i \in 1..Len(s) |->
        IF \E k \in 1..Len(UpperLetters) : UpperLetters[k] = s[i]
        THEN LowerLetters[CHOOSE k \in 1..Len(UpperLetters) :
                            UpperLetters[k] = s[i]]
        ELSE s[i]]

\* strings.Title: the letter that begins a word is upper-cased.
Title(s) ==
    [i \in 1..Len(s) |->
        IF /\ \E k \in 1..Len(LowerLetters) : LowerLetters[k] = s[i]
           /\ (i = 1 \/ ToLower(<<s[i - 1]>>)[1] \notin
                           { LowerLetters[k] : k \in 1..Len(LowerLetters) })
        THEN UpperLetters[CHOOSE k \in 1..Len(LowerLetters) :
                            LowerLetters[k] = s[i]]
        ELSE s[i]]

HasPrefix(s, prefix) ==
    Len(s) >= Len(prefix) /\ SubSeq(s, 1, Len(prefix)) = prefix

\* strings.ReplaceAll for a non-empty old: the non-overlapping occurrences
\* of old, taken from the left, are replaced by new.
RECURSIVE ReplaceAll(_, _, _)
ReplaceAll(s, old, new) ==
    IF s = <<>> THEN <<>>
    ELSE IF HasPrefix(s, old)
    THEN new \o ReplaceAll(SubSeq(s, Len(old) + 1, Len(s)), old, new)
    ELSE <<Head(s)>> \o ReplaceAll(Tail(s), old, new)

NvidiaGeForcePrefix ==
    <<"N", "V", "I", "D", "I", "A", "-", "G", "e", "F", "o", "r", "c", "e",
      "-">>

NvidiaPrefix ==
    <<"N", "V", "I", "D", "I", "A", "-">>

H100Lower ==
    <<"h", "1", "0", "0", "-", "s", "x", "m", "5", "-", "8", "0", "g", "b">>

H100Upper ==
    <<"H", "1", "0", "0", "-", "S", "X", "M", "5", "-", "8", "0", "G", "B">>

\* The three strings.ReplaceAll calls of the on-demand views.
CleanGPUModel(gpuModel) ==
    ReplaceAll(ReplaceAll(ReplaceAll(gpuModel, NvidiaGeForcePrefix, <<>>),
                          NvidiaPrefix, <<>>),
               H100Lower, H100Upper)

\* gpuModel = "H100-SXM5-80GB" // Default for VMs, Default for bare-metal
DefaultGPUModel == H100Upper

\* gpuModel = "N/A" of the spot views; also the uptime of an unknown span
NotApplicable == <<"N", "/", "A">>

StatusPending ==
    <<"p", "e", "n", "d", "i", "n", "g">>

StatusStarting ==
    <<"s", "t", "a", "r", "t", "i", "n", "g">>

StatusProvisioning ==
    <<"p", "r", "o", "v", "i", "s", "i", "o", "n", "i", "n", "g">>

StatusInitializing ==
    <<"i", "n", "i", "t", "i", "a", "l", "i", "z", "i", "n", "g">>

\* status == "pending" || status == "starting" || ... after ToLower
StartingUp(status) ==
    ToLower(status) \in {StatusPending, StatusStarting, StatusProvisioning,
                         StatusInitializing}

\* An SSH string from a Go string.
Str(s) == IF s = "" THEN <<>> ELSE <<s>>

AvailableWhenReady == Str("Available when ready")

SSHNotAvailable == Str("SSH details not available")

\* The placeholder of a record without SSH fields.
Placeholder(status) ==
    IF StartingUp(status) THEN AvailableWhenReady ELSE SSHNotAvailable

\* fmt.Sprintf("ssh %s@%s", username, publicIP)
SSHTo(username, publicIP) ==
    <<"ssh ">> \o Str(username) \o <<"@">> \o Str(publicIP)

\* strings.Join(elems, sep)
RECURSIVE Join(_, _)
Join(elems, sep) ==
    IF elems = <<>> THEN <<>>
    ELSE IF Len(elems) = 1 THEN elems[1]
    ELSE elems[1] \o sep \o Join(Tail(elems), sep)

\* fmt.Sprintf("%02d", n) for 0 <= n < 100
TwoDigits(n) == <<Digits[(n \div 10) + 1], Digits[(n % 10) + 1]>>

\* fmt.Sprintf("$%.2f/hr", cents / 100.0) for a whole number of cents
FormatPrice(cents) ==
    <<"$">> \o Itoa(cents \div 100) \o <<".">> \o TwoDigits(cents % 100)
        \o <<"/", "h", "r">>

\* The sum of the counts of a GPU-model-to-count mapping.
RECURSIVE SumCounts(_)
SumCounts(gpus) ==
    IF DOMAIN gpus = {} THEN 0
    ELSE LET k == CHOOSE x \in DOMAIN gpus : TRUE
         IN  gpus[k].count
               + SumCounts([x \in DOMAIN gpus \ {k} |-> gpus[x]])

\* GPU model names as the upstream gives them
ModelGeForceH100 ==
    <<"N", "V", "I", "D", "I", "A", "-", "G", "e", "F", "o", "r", "c", "e",
      "-", "h", "1", "0", "0", "-", "s", "x", "m", "5", "-", "8", "0", "g",
      "b">>

ModelNvidiaL4 ==
    <<"N", "V", "I", "D", "I", "A", "-", "L", "4">>

GPUModels == {ModelGeForceH100, ModelNvidiaL4}

\* status strings as the upstream gives them
StatusStrings ==
    { StatusPending,
      StatusStarting,
      <<"P", "R", "O", "V", "I", "S", "I", "O", "N", "I", "N", "G">>,
      <<"I", "n", "i", "t", "i", "a", "l", "i", "z", "i", "n", "g">>,
      <<"r", "u", "n", "n", "i", "n", "g">>,
      <<"t", "e", "r", "m", "i", "n", "a", "t", "e", "d">> }

\* UserInstance, the fields the views read
SpotViewRecords ==
    [ family     : {"spot"},
      status     : StatusStrings,
      sshCommand : {"", "ssh root@spot -p 31000"},
      gpus       : {<<>>} \cup { <<[model |-> m]>> :
                                   m \in GPUModels \cup {<<>>} },
      gpuCount   : {1, 2},
      amount     : {99, 150} ]

\* *OnDemandInstanceSpecs: nil, or a per-node GPU count and model
SpecsValues ==
    { [present |-> FALSE, gpuCount |-> 0, gpuModel |-> <<>>] }
    \cup [ present  : {TRUE},
           gpuCount : {0, 8},
           gpuModel : {<<>>, ModelGeForceH100} ]

\* map[string]OnDemandGPU
GPUMaps == UNION { [K -> [count : {0, 1}]] : K \in SUBSET GPUModels }

\* *OnDemandInstanceResources: nil, or a GPU mapping
ResourcesValues ==
    { [present |-> FALSE, gpus |-> <<>>] }
    \cup { [present |-> TRUE, gpus |-> g] : g \in GPUMaps }

PublicIPs == <<"203.0.113.1", "203.0.113.2", "203.0.113.3">>

\* []OnDemandNetworking with at most MaxNodes records, in upstream order
NodeNetworkings ==
    { [i \in 1..n |-> [publicIP |-> PublicIPs[n + 1 - i]]] : n \in 0..MaxNodes }

\* OnDemandInstance, the fields the views read
OnDemandViewRecords(family) ==
    [ family         : {family},
      status         : StatusStrings,
      costPerHour    : {149},
      publicIP       : {"", "198.51.100.7"},
      gpuCount       : {0, 2},
      resources      : ResourcesValues,
      sshCommand     : {"", "ssh ubuntu@vm.example"},
      nodeCount      : {0, 1, 4},
      specsPerNode   : SpecsValues,
      username       : {"", "ubuntu"},
      nodeNetworking : NodeNetworkings,
      networkType    : {<<>>, <<"i", "n", "f", "i", "n", "i", "b", "a",
                                "n", "d">>} ]

NoInstance == [family |-> "none"]

NoRow == [gpuModel |-> <<>>, count |-> <<>>, sshCommand |-> <<>>,
          networking |-> <<>>, price |-> <<>>]

\* "GPU Count: %d", or "Total GPUs: %d (%dx%d)" with "GPUs per Node: %d"
GPULines(kind, total, perNode, nodes) ==
    [kind |-> kind, total |-> total, perNode |-> perNode, nodes |-> nodes]

\* "GPU Model: %s" or "Network Type: %s", when it is printed
ModelLine(printed, text) == [printed |-> printed, text |-> text]

\* "SSH Command: %s" (n = 0) or "  Node %d: %s"
SSHLine(n, text) == [n |-> n, text |-> text]

NoDetails ==
    [gpu |-> GPULines("none", <<>>, <<>>, <<>>),
     gpuModel |-> ModelLine(FALSE, <<>>),
     price |-> <<>>,
     network |-> ModelLine(FALSE, <<>>),
     ssh |-> <<>>]

\* printSpotInstancesTable, one row
SpotTableRow(r) ==
    [gpuModel   |-> IF Len(r.gpus) > 0 THEN r.gpus[1].model
                    ELSE NotApplicable,
     count      |-> Itoa(r.gpuCount),
     sshCommand |-> Str(r.sshCommand),
     networking |-> <<>>,
     price      |-> FormatPrice(r.amount * r.gpuCount)]

\* printSpotInstanceDetails
SpotDetails(r) ==
    [gpu      |-> GPULines("count", Itoa(r.gpuCount), <<>>, <<>>),
     gpuModel |-> ModelLine(TRUE, IF Len(r.gpus) > 0 THEN r.gpus[1].model
                                  ELSE NotApplicable),
     price    |-> FormatPrice(r.amount * r.gpuCount),
     network  |-> ModelLine(FALSE, <<>>),
     ssh      |-> <<SSHLine(0, Str(r.sshCommand))>>]

\* for model, gpuInfo := range Resources.GPUs { ...; break }: the entry a
\* range over a Go map gives first is any entry of the map.
FirstEntries(r) ==
    IF r.resources.present /\ DOMAIN r.resources.gpus # {}
    THEN { [model |-> k, count |-> r.resources.gpus[k].count] :
             k \in DOMAIN r.resources.gpus }
    ELSE { [model |-> <<>>, count |-> 0] }

\* A faulty price: the on-demand cost is multiplied by the GPU count.
OnDemandPricePerGPU(r, gpuCount) == FormatPrice(r.costPerHour * gpuCount)

\* fmt.Sprintf("$%.2f/hr", float64(instance.CostPerHour)/100.0)
OnDemandPrice(r, gpuCount) == FormatPrice(r.costPerHour)

\* printOnDemandInstancesTable, the row of a VM record, for each entry the
\* range may give first
VMTableRows(r) ==
    { LET gpuCount == IF e.count = 0 THEN r.gpuCount ELSE e.count
      IN  [gpuModel   |-> IF e.model # <<>> THEN CleanGPUModel(e.model)
                          ELSE DefaultGPUModel,
           count      |-> Itoa(gpuCount),
           sshCommand |-> IF r.sshCommand = "" THEN Placeholder(r.status)
                          ELSE Str(r.sshCommand),
           networking |-> <<"E", "t", "h", "e", "r", "n", "e", "t">>,
           price      |-> OnDemandPrice(r, gpuCount)] :
      e \in FirstEntries(r) }

\* The SSH string of a bare-metal row.
BMTableSSH(r) ==
    IF Len(r.nodeNetworking) > 0 /\ r.username # ""
    THEN IF Len(r.nodeNetworking) = 1
         THEN SSHTo(r.username, r.nodeNetworking[1].publicIP)
         ELSE Join([i \in 1..Len(r.nodeNetworking) |->
                      SSHTo(r.username, r.nodeNetworking[i].publicIP)],
                   <<"\n">>)
    ELSE Placeholder(r.status)

\* printOnDemandInstancesTable, the row of a bare-metal record
BMTableRow(r) ==
    LET gpuModel == IF r.specsPerNode.present THEN r.specsPerNode.gpuModel
                    ELSE <<>>
        gpuCount == IF r.specsPerNode.present THEN r.specsPerNode.gpuCount
                    ELSE 0
    IN  [gpuModel   |-> IF gpuModel # <<>> THEN CleanGPUModel(gpuModel)
                        ELSE DefaultGPUModel,
         count      |-> IF r.nodeCount > 1
                        THEN Itoa(gpuCount) \o <<"x">> \o Itoa(r.nodeCount)
                        ELSE Itoa(gpuCount),
         sshCommand |-> BMTableSSH(r),
         networking |-> IF r.networkType # <<>>
                        THEN Title(ToLower(r.networkType))
                        ELSE <<"S", "t", "a", "n", "d", "a", "r", "d">>,
         price      |-> OnDemandPrice(r, gpuCount)]

\* printOnDemandInstanceDetails, the GPU count: gpuCount and totalGPUCount
DetailGPUCount(r) ==
    LET first == IF r.specsPerNode.present
                 THEN [gpuCount |-> r.specsPerNode.gpuCount,
                       total |-> r.specsPerNode.gpuCount * r.nodeCount]
                 ELSE IF r.resources.present
                 THEN [gpuCount |-> SumCounts(r.resources.gpus),
                       total |-> SumCounts(r.resources.gpus)]
                 ELSE [gpuCount |-> 0, total |-> 0]
    IN  IF first.gpuCount = 0
        THEN [gpuCount |-> r.gpuCount, total |-> r.gpuCount]
        ELSE first

\* printOnDemandInstanceDetails, the GPU lines
DetailGPULines(r) ==
    LET c == DetailGPUCount(r)
    IN  IF r.nodeCount > 1
        THEN GPULines("total", Itoa(c.total), Itoa(c.gpuCount),
                      Itoa(r.nodeCount))
        ELSE GPULines("count", Itoa(c.total), <<>>, <<>>)

\* printOnDemandInstanceDetails, the GPU model before the cleanup, for each
\* key the range may give first
DetailGPUModels(r) ==
    IF r.specsPerNode.present THEN {r.specsPerNode.gpuModel}
    ELSE { e.model : e \in FirstEntries(r) }

\* A faulty rule order: the public IP of the record is used before the
\* node networking.
DetailSSHPublicIPFirst(r) ==
    IF r.sshCommand # "" THEN <<SSHLine(0, Str(r.sshCommand))>>
    ELSE IF r.publicIP # ""
    THEN <<SSHLine(0, SSHTo("user", r.publicIP))>>
    ELSE IF Len(r.nodeNetworking) > 0 /\ r.username # ""
    THEN [i \in 1..Len(r.nodeNetworking) |->
            SSHLine(IF Len(r.nodeNetworking) = 1 THEN 0 ELSE i,
                    SSHTo(r.username, r.nodeNetworking[i].publicIP))]
    ELSE <<SSHLine(0, Placeholder(r.status))>>

\* printOnDemandInstanceDetails, the SSH lines
DetailSSH(r) ==
    IF r.sshCommand # "" THEN <<SSHLine(0, Str(r.sshCommand))>>
    ELSE IF Len(r.nodeNetworking) > 0 /\ r.username # ""
    THEN IF Len(r.nodeNetworking) = 1
         THEN <<SSHLine(0, SSHTo(r.username,
                                 r.nodeNetworking[1].publicIP))>>
         ELSE [i \in 1..Len(r.nodeNetworking) |->
                 SSHLine(i, SSHTo(r.username,
                                  r.nodeNetworking[i].publicIP))]
    ELSE IF r.publicIP # ""
    THEN <<SSHLine(0, SSHTo("user", r.publicIP))>>
    ELSE <<SSHLine(0, Placeholder(r.status))>>

\* printOnDemandInstanceDetails, for each key the range may give first
OnDemandDetails(r) ==
    { [gpu      |-> DetailGPULines(r),
       gpuModel |-> IF m # <<>> THEN ModelLine(TRUE, CleanGPUModel(m))
                    ELSE ModelLine(FALSE, <<>>),
       price    |-> OnDemandPrice(r, DetailGPUCount(r).gpuCount),
       network  |-> ModelLine(r.networkType # <<>>, r.networkType),
       ssh      |-> DetailSSH(r)] :
      m \in DetailGPUModels(r) }

ViewIdle ==
    /\ viewPc = "idle"
    /\ instance = NoInstance
    /\ row = NoRow
    /\ details = NoDetails

\* A record of the spot collection reaches the views.
PickSpot ==
    /\ viewPc = "idle"
    /\ instance' \in SpotViewRecords
    /\ viewPc' = "row"
    /\ UNCHANGED <<cliVars, optVars, uptimeVars, marketVars, row, details>>

\* A record of the VM collection reaches the views.
PickVM ==
    /\ viewPc = "idle"
    /\ instance' \in OnDemandViewRecords("vm")
    /\ viewPc' = "row"
    /\ UNCHANGED <<cliVars, optVars, uptimeVars, marketVars, row, details>>

\* A record of the bare-metal collection reaches the views.
PickBM ==
    /\ viewPc = "idle"
    /\ instance' \in OnDemandViewRecords("bare-metal")
    /\ viewPc' = "row"
    /\ UNCHANGED <<cliVars, optVars, uptimeVars, marketVars, row, details>>

\* printSpotInstancesTable appends the row of the record.
RenderSpotRow ==
    /\ viewPc = "row"
    /\ instance.family = "spot"
    /\ row' = SpotTableRow(instance)
    /\ viewPc' = "details"
    /\ UNCHANGED <<cliVars, optVars, uptimeVars, marketVars, instance, details>>

\* printOnDemandInstancesTable appends the row of a VM record.
RenderVMRow ==
    /\ viewPc = "row"
    /\ instance.family = "vm"
    /\ row' \in VMTableRows(instance)
    /\ viewPc' = "details"
    /\ UNCHANGED <<cliVars, optVars, uptimeVars, marketVars, instance, details>>

\* printOnDemandInstancesTable appends the row of a bare-metal record.
RenderBMRow ==
    /\ viewPc = "row"
    /\ instance.family = "bare-metal"
    /\ row' = BMTableRow(instance)
    /\ viewPc' = "details"
    /\ UNCHANGED <<cliVars, optVars, uptimeVars, marketVars, instance, details>>

\* printSpotInstanceDetails prints the record.
RenderSpotDetails ==
    /\ viewPc = "details"
    /\ instance.family = "spot"
    /\ details' = SpotDetails(instance)
    /\ viewPc' = "done"
    /\ UNCHANGED <<cliVars, optVars, uptimeVars, marketVars, instance, row>>

\* printOnDemandInstanceDetails prints the record.
RenderOnDemandDetails ==
    /\ viewPc = "details"
    /\ instance.family \in {"vm", "bare-metal"}
    /\ details' \in OnDemandDetails(instance)
    /\ viewPc' = "done"
    /\ UNCHANGED <<cliVars, optVars, uptimeVars, marketVars, instance, row>>

ViewNext ==
    \/ PickSpot
    \/ PickVM
    \/ PickBM
    \/ RenderSpotRow
    \/ RenderVMRow
    \/ RenderBMRow
    \/ RenderSpotDetails
    \/ RenderOnDemandDetails

----------------------------------------------------------------------------
(* calculateUptime and formatDuration (instances.go).                      *)
(*                                                                         *)
(* A timestamp string is its form and the instant it names, in seconds; a  *)
(* duration is a number of seconds.                                        *)

\* last day on which the instants of the model fall
MaxDays == 2

SecondsPerMinute == 60

MinutesPerHour == 60

SecondsPerHour == 3600

HoursPerDay == 24

SecondsPerDay == 86400

\* seconds into a day at which the instants of the model fall
Offsets == {0, 59, 60, 3599, 3600, 86399}

Times == { d * SecondsPerDay + o : d \in 0..MaxDays, o \in Offsets }

\* The layouts calculateUptime tries, in its order.
Layouts ==
    <<"RFC3339", "2006-01-02T15:04:05Z", "2006-01-02 15:04:05.999+00",
      "2006-01-02 15:04:05+00">>

\* The forms of a timestamp string: "offset" as 2025-07-08T21:53:35+02:00,
\* "zulu" as 2025-07-08T21:53:35Z, "fraction" as 2025-07-08 21:53:35.367+00,
\* "plain" as 2025-07-08 21:53:35+00, "empty" the empty string, "other"
\* anything else.
ParseableForms == {"offset", "zulu", "fraction", "plain"}

TimeString(form, t) == [form |-> form, t |-> t]

EmptyString == TimeString("empty", 0)

\* a nil *string
NilString == TimeString("nil", 0)

\* time.Parse(layout, s) succeeds
Accepts(layout, s) ==
    CASE layout = "RFC3339" -> s.form \in {"offset", "zulu"}
      [] layout = "2006-01-02T15:04:05Z" -> s.form = "zulu"
      [] layout = "2006-01-02 15:04:05.999+00" ->
            s.form \in {"fraction", "plain"}
      [] layout = "2006-01-02 15:04:05+00" -> s.form \in {"fraction", "plain"}

\* The nested time.Parse calls: the first layout that accepts the string.
ParseTime(s) ==
    IF \E i \in 1..Len(Layouts) : Accepts(Layouts[i], s)
    THEN [ok |-> TRUE, t |-> s.t]
    ELSE [ok |-> FALSE, t |-> 0]

StartStrings ==
    { TimeString(f, t) : f \in ParseableForms, t \in {0, 3600, 86400} }
    \cup { EmptyString, TimeString("other", 0) }

EndStrings ==
    { TimeString(f, t) : f \in ParseableForms, t \in Times }
    \cup { NilString, EmptyString, TimeString("other", 0) }

\* A faulty formatDuration: a negative duration is formatted as it is.
formatDurationSigned(d) ==
    LET days    == (d \div SecondsPerHour) \div HoursPerDay
        hours   == (d \div SecondsPerHour) % HoursPerDay
        minutes == (d \div SecondsPerMinute) % MinutesPerHour
    IN  IF days > 0
        THEN Itoa(days) \o <<"d", " ">> \o Itoa(hours) \o <<"h">>
        ELSE IF hours > 0
        THEN Itoa(hours) \o <<"h", " ">> \o Itoa(minutes) \o <<"m">>
        ELSE Itoa(minutes) \o <<"m">>

\* A faulty formatDuration: the hours are not reduced modulo 24.
formatDurationAllHours(d) ==
    LET days    == (d \div SecondsPerHour) \div HoursPerDay
        hours   == d \div SecondsPerHour
        minutes == (d \div SecondsPerMinute) % MinutesPerHour
    IN  IF d < 0 THEN NotApplicable
        ELSE IF days > 0
        THEN Itoa(days) \o <<"d", " ">> \o Itoa(hours) \o <<"h">>
        ELSE IF hours > 0
        THEN Itoa(hours) \o <<"h", " ">> \o Itoa(minutes) \o <<"m">>
        ELSE Itoa(minutes) \o <<"m">>

\* formatDuration: int(d.Hours()) is the whole hours of d, int(d.Minutes())
\* its whole minutes.
formatDuration(d) ==
    LET days    == (d \div SecondsPerHour) \div HoursPerDay
        hours   == (d \div SecondsPerHour) % HoursPerDay
        minutes == (d \div SecondsPerMinute) % MinutesPerHour
    IN  IF d < 0 THEN NotApplicable
        ELSE IF days > 0
        THEN Itoa(days) \o <<"d", " ">> \o Itoa(hours) \o <<"h">>
        ELSE IF hours > 0
        THEN Itoa(hours) \o <<"h", " ">> \o Itoa(minutes) \o <<"m">>
        ELSE Itoa(minutes) \o <<"m">>

\* A faulty ResolveEnd: the end is always time.Now().
ResolveEndAlwaysNow(e, clock) == clock

\* The end calculateUptime settles on: the parsed end string, or time.Now()
\* when the string is nil, empty or parses under no layout.
ResolveEnd(e, clock) ==
    IF e # NilString /\ e # EmptyString /\ ParseTime(e).ok
    THEN ParseTime(e).t
    ELSE clock

calculateUptime(s, e, clock) ==
    IF ~ParseTime(s).ok THEN NotApplicable
    ELSE formatDuration(ResolveEnd(e, clock) - ParseTime(s).t)

UptimeIdle ==
    /\ uptimePc = "idle"
    /\ startTime = EmptyString
    /\ endTime = NilString
    /\ now = 0
    /\ uptime = <<>>

\* A view calls calculateUptime with the timestamps of a record.
CallUptime ==
    /\ uptimePc = "idle"
    /\ startTime' \in StartStrings
    /\ endTime' \in EndStrings
    /\ now' \in Times
    /\ uptimePc' = "called"
    /\ UNCHANGED <<cliVars, optVars, viewVars, marketVars, uptime>>

\* calculateUptime returns its label.
ReturnUptime ==
    /\ uptimePc = "called"
    /\ uptime' = calculateUptime(startTime, endTime, now)
    /\ uptimePc' = "returned"
    /\ UNCHANGED <<cliVars, optVars, viewVars, marketVars, startTime, endTime, now>>

\* The same record is shown again with a later end string.
LaterEnd ==
    /\ uptimePc = "returned"
    /\ ParseTime(endTime).ok
    /\ \E t \in Times :
         /\ t > endTime.t
         /\ endTime' = TimeString(endTime.form, t)
         /\ uptime' = calculateUptime(startTime, endTime', now)
    /\ UNCHANGED <<cliVars, optVars, viewVars, marketVars, uptimePc, startTime, now>>

\* The same record is shown again at a later time.
LaterNow ==
    /\ uptimePc = "returned"
    /\ \E t \in Times :
         /\ t > now
         /\ now' = t
         /\ uptime' = calculateUptime(startTime, endTime, t)
    /\ UNCHANGED <<cliVars, optVars, viewVars, marketVars, uptimePc, startTime, endTime>>

UptimeNext ==
    \/ CallUptime
    \/ ReturnUptime
    \/ LaterEnd
    \/ LaterNow

----------------------------------------------------------------------------
(* The spot command: printInstancesTable (spot.go).                        *)

\* most instances in a marketplace response
MaxMarket == 3

\* The byte of a character, as far as the order of bytes goes: digits
\* before upper-case letters before lower-case letters.
Byte(c) ==
    CHOOSE k \in 1..(Len(Digits) + Len(UpperLetters) + Len(LowerLetters)) :
        (Digits \o UpperLetters \o LowerLetters)[k] = c

\* strings.Compare
RECURSIVE Compare(_, _)
Compare(a, b) ==
    IF a = <<>> /\ b = <<>> THEN 0
    ELSE IF a = <<>> THEN 0 - 1
    ELSE IF b = <<>> THEN 1
    ELSE IF Head(a) = Head(b) THEN Compare(Tail(a), Tail(b))
    ELSE IF Byte(Head(a)) < Byte(Head(b)) THEN 0 - 1
    ELSE 1

\* Instance, the fields printInstancesTable reads; the node name (ID) is
\* given by the place in the response
MarketRecords ==
    [ gpusTotal    : {8},
      gpusReserved : {0, 8},
      amount       : {99, 150},
      gpus         : {<<>>} \cup
                     { <<[model |-> m]>> :
                         m \in { <<"A", "1", "0">>, <<"A", "1", "0", "0">>,
                                 <<"H", "1", "0", "0">> } } ]

\* marketplaceData.Instances: at most MaxMarket instances, in upstream order
MarketResponses ==
    { [i \in 1..Len(f) |->
         [id |-> i, gpusTotal |-> f[i].gpusTotal,
          gpusReserved |-> f[i].gpusReserved, amount |-> f[i].amount,
          gpus |-> f[i].gpus]] :
        f \in SeqsUpTo(MarketRecords, MaxMarket) }

\* The first loop of printInstancesTable: the instances with available
\* GPUs, or all of them with --all, in their order.
FilterInstances(instances, all) ==
    SelectSeq(instances,
              LAMBDA x : all \/ x.gpusTotal - x.gpusReserved > 0)

getGPUModel(x) == IF Len(x.gpus) > 0 THEN x.gpus[1].model ELSE <<>>

\* A faulty comparison: instances of one price are not compared by model.
LessByPriceOnly(x, y) == x.amount < y.amount

\* The less function handed to sort.Slice.
Less(x, y) ==
    IF x.amount # y.amount THEN x.amount < y.amount
    ELSE Compare(getGPUModel(x), getGPUModel(y)) < 0

\* sort.Slice: the slice is left in an order in which no element is less
\* than one before it; the sort is not stable, so elements of which
\* neither is less than the other end in any order.
SortSlice(slice) ==
    { [i \in 1..Len(slice) |-> slice[perm[i]]] :
        perm \in { q \in [1..Len(slice) -> 1..Len(slice)] :
                    /\ \A i, j \in 1..Len(slice) : i # j => q[i] # q[j]
                    /\ \A i, j \in 1..Len(slice) :
                         i < j => ~Less(slice[q[j]], slice[q[i]]) } }

\* table.Append of printInstancesTable: the cells of one instance
MarketRow(x) ==
    [gpuModel |-> IF Len(x.gpus) > 0 THEN x.gpus[1].model
                  ELSE NotApplicable,
     count    |-> Itoa(x.gpusTotal - x.gpusReserved) \o <<"/">>
                    \o Itoa(x.gpusTotal),
     price    |-> <<"$">> \o Itoa(x.amount \div 100) \o <<".">>
                    \o TwoDigits(x.amount % 100),
     node     |-> x.id]

\* printInstancesTable: the tables it may print
printInstancesTable(instances, all) ==
    { [i \in 1..Len(sorted) |-> MarketRow(sorted[i])] :
        sorted \in SortSlice(FilterInstances(instances, all)) }

MarketIdle ==
    /\ marketPc = "idle"
    /\ showAll = FALSE
    /\ marketInstances = <<>>
    /\ marketTable = <<>>

\* hyperbolic spot [--all]: spotCmd.Run up to the parsed response.
FetchMarket ==
    /\ marketPc = "idle"
    /\ showAll' \in BOOLEAN
    /\ marketInstances' \in MarketResponses
    /\ marketPc' = "parsed"
    /\ UNCHANGED <<cliVars, optVars, viewVars, uptimeVars, marketTable>>

\* spotCmd.Run calls printInstancesTable.
PrintMarketTable ==
    /\ marketPc = "parsed"
    /\ marketTable' \in printInstancesTable(marketInstances, showAll)
    /\ marketPc' = "printed"
    /\ UNCHANGED <<cliVars, optVars, viewVars, uptimeVars, showAll,
                   marketInstances>>

MarketNext ==
    \/ FetchMarket
    \/ PrintMarketTable

----------------------------------------------------------------------------
(* One invocation of a command.                                            *)

CliInit ==
    /\ config \in ConfigStates
    /\ cmd = NoCommand
    /\ pc = "idle"
    /\ apiKey = <<>>
    /\ inflight = {}
    /\ reqs = <<>>
    /\ resp = [e \in Endpoints |-> NoResp]
    /\ spotResponse = NoBody
    /\ spotInstances = <<>>
    /\ vmInstances = <<>>
    /\ bmInstances = <<>>
    /\ vmListing = NotFetched
    /\ bmListing = NotFetched
    /\ rentalID = 0
    /\ instanceType = ""
    /\ out = <<>>

OptIdle ==
    /\ goVM = [pc |-> "idle", res |-> [ok |-> FALSE, val |-> <<>>, err |-> ""]]
    /\ goBM = [pc |-> "idle", res |-> [ok |-> FALSE, val |-> <<>>, err |-> ""]]
    /\ vmChan = <<>>
    /\ bareMetalChan = <<>>
    /\ errChan = <<>>
    /\ collector = [pc |-> "idle", vmOptions |-> <<>>,
                    bareMetalOptions |-> <<>>, receivedCount |-> 0,
                    ret |-> [vm |-> <<>>, bm |-> <<>>, err |-> ""]]

Init == CliInit /\ OptIdle /\ ViewIdle /\ UptimeIdle /\ MarketIdle

Next ==
    \/ InvokeInstances
    \/ SpotGetKey
    \/ SpotSend
    \/ SpotRecv
    \/ OnDemandGetKey
    \/ VMSend
    \/ VMRecv
    \/ BMSend
    \/ BMRecv
    \/ SpotParse
    \/ Show
    \/ InvokeTerminate
    \/ TerminateRun
    \/ TerminateGetKey
    \/ TerminateRoute
    \/ TerminateSpotSend
    \/ TerminateSpotRecv
    \/ TerminateVMListSend
    \/ TerminateVMListRecv
    \/ TerminateBMListSend
    \/ TerminateBMListRecv
    \/ TerminateOnDemandSend
    \/ TerminateOnDemandRecv
    \/ InvokeRentSpot
    \/ RentSpotValidate
    \/ RentSpotGetKey
    \/ RentSpotSend
    \/ RentSpotRecv
    \/ InvokeRentOnDemand
    \/ RentOnDemandValidate
    \/ RentOnDemandGetKey
    \/ RentOnDemandSend
    \/ RentOnDemandRecv

Spec == Init /\ [][Next]_vars

----------------------------------------------------------------------------
(* fetchOnDemandOptions (config.go, the ondemand command).                 *)

\* The option documents an upstream serves.
OptionItems == { <<[gpuCount |-> 1]>>, <<[gpuCount |-> 8]>> }

\* What client.Do gives to an options fetch: the VM options document is a
\* JSON array ("list"), the bare-metal one a JSON object ("object").
OptionResponses ==
    { [got |-> TRUE, err |-> TRUE, status |-> 0, body |-> NoBody] }
    \cup { [got |-> TRUE, err |-> FALSE, status |-> s,
            body |-> [shape |-> sh, items |-> v]] :
             s \in Statuses, sh \in {"list", "object"}, v \in OptionItems }
    \cup { [got |-> TRUE, err |-> FALSE, status |-> s,
            body |-> [shape |-> "garbage", items |-> <<>>]] : s \in Statuses }

\* fetchVirtualMachineOptions for response r.
fetchVirtualMachineOptions(r) ==
    IF r.err THEN [ok |-> FALSE, val |-> <<>>, err |-> "vm: request"]
    ELSE IF r.status # 200
    THEN [ok |-> FALSE, val |-> <<>>, err |-> "vm: status"]
    ELSE IF r.body.shape = "list"
    THEN [ok |-> TRUE, val |-> r.body.items, err |-> ""]
    ELSE [ok |-> FALSE, val |-> <<>>, err |-> "vm: parse"]

\* fetchBareMetalOptions for response r.
fetchBareMetalOptions(r) ==
    IF r.err THEN [ok |-> FALSE, val |-> <<>>, err |-> "bm: request"]
    ELSE IF r.status # 200
    THEN [ok |-> FALSE, val |-> <<>>, err |-> "bm: status"]
    ELSE IF r.body.shape = "object"
    THEN [ok |-> TRUE, val |-> r.body.items, err |-> ""]
    ELSE [ok |-> FALSE, val |-> <<>>, err |-> "bm: parse"]

\* make(chan ..., 1) for each result, make(chan error, 2)
ResultChanCap == 1

ErrChanCap == 2

NoResult == [ok |-> FALSE, val |-> <<>>, err |-> ""]

\* The value of fetchOnDemandOptions' three results.
Return(vm, bm, err) == [vm |-> vm, bm |-> bm, err |-> err]

NoReturn == Return(<<>>, <<>>, "")

Collector(p, vm, bm, count, ret) ==
    [pc |-> p, vmOptions |-> vm, bareMetalOptions |-> bm,
     receivedCount |-> count, ret |-> ret]

\* hyperbolic ondemand: printRawJSON or printOnDemandTable calls
\* fetchOnDemandOptions, which reads the credential first.
OptGetKey ==
    /\ collector.pc = "idle"
    /\ LET k == GetAPIKey(config)
       IN  IF k.ok
           THEN /\ apiKey' = k.key
                /\ collector' = Collector("go_vm", <<>>, <<>>, 0, NoReturn)
           ELSE /\ apiKey' = apiKey
                /\ collector' = Collector("returned", <<>>, <<>>, 0,
                                          Return(<<>>, <<>>, "credential"))
    /\ UNCHANGED <<config, cmd, pc, inflight, reqs, resp, spotResponse,
                   spotInstances, vmInstances, bmInstances, termVars, out,
                   goVM, goBM, vmChan, bareMetalChan, errChan, fmtVars>>

\* go func() { fetchVirtualMachineOptions ... }()
OptSpawnVM ==
    /\ collector.pc = "go_vm"
    /\ goVM' = [pc |-> "fetch", res |-> NoResult]
    /\ collector' = [collector EXCEPT !.pc = "go_bm"]
    /\ UNCHANGED <<cliVars, fmtVars, goBM, vmChan, bareMetalChan, errChan>>

\* go func() { fetchBareMetalOptions ... }()
OptSpawnBM ==
    /\ collector.pc = "go_bm"
    /\ goBM' = [pc |-> "fetch", res |-> NoResult]
    /\ collector' = [collector EXCEPT !.pc = "select"]
    /\ UNCHANGED <<cliVars, fmtVars, goVM, vmChan, bareMetalChan, errChan>>

\* The VM goroutine: fetchVirtualMachineOptions returns.
GoVMFetch ==
    /\ goVM.pc = "fetch"
    /\ \E r \in OptionResponses :
         goVM' = [pc |-> "send", res |-> fetchVirtualMachineOptions(r)]
    /\ UNCHANGED <<cliVars, fmtVars, goBM, vmChan, bareMetalChan, errChan, collector>>

\* The VM goroutine: errChan <- err, or vmChan <- vmOptions.  A send blocks
\* while the channel's buffer is full.
GoVMSend ==
    /\ goVM.pc = "send"
    /\ IF goVM.res.ok
       THEN /\ Len(vmChan) < ResultChanCap
            /\ vmChan' = Append(vmChan, goVM.res.val)
            /\ errChan' = errChan
       ELSE /\ Len(errChan) < ErrChanCap
            /\ errChan' = Append(errChan, goVM.res.err)
            /\ vmChan' = vmChan
    /\ goVM' = [goVM EXCEPT !.pc = "exited"]
    /\ UNCHANGED <<cliVars, fmtVars, goBM, bareMetalChan, collector>>

\* The bare-metal goroutine: fetchBareMetalOptions returns.
GoBMFetch ==
    /\ goBM.pc = "fetch"
    /\ \E r \in OptionResponses :
         goBM' = [pc |-> "send", res |-> fetchBareMetalOptions(r)]
    /\ UNCHANGED <<cliVars, fmtVars, goVM, vmChan, bareMetalChan, errChan, collector>>

\* A faulty bare-metal goroutine: errChan has no buffer, so the send of an
\* error waits for a receiver.
GoBMSendNoErrBuffer ==
    /\ goBM.pc = "send"
    /\ IF goBM.res.ok
       THEN /\ Len(bareMetalChan) < ResultChanCap
            /\ bareMetalChan' = Append(bareMetalChan, goBM.res.val)
            /\ errChan' = errChan
       ELSE /\ collector.pc = "select"
            /\ Len(errChan) < ErrChanCap - 1
            /\ errChan' = Append(errChan, goBM.res.err)
            /\ bareMetalChan' = bareMetalChan
    /\ goBM' = [goBM EXCEPT !.pc = "exited"]
    /\ UNCHANGED <<cliVars, fmtVars, goVM, vmChan, collector>>

\* The bare-metal goroutine: errChan <- err, or bareMetalChan <- options.
GoBMSend ==
    /\ goBM.pc = "send"
    /\ IF goBM.res.ok
       THEN /\ Len(bareMetalChan) < ResultChanCap
            /\ bareMetalChan' = Append(bareMetalChan, goBM.res.val)
            /\ errChan' = errChan
       ELSE /\ Len(errChan) < ErrChanCap
            /\ errChan' = Append(errChan, goBM.res.err)
            /\ bareMetalChan' = bareMetalChan
    /\ goBM' = [goBM EXCEPT !.pc = "exited"]
    /\ UNCHANGED <<cliVars, fmtVars, goVM, vmChan, collector>>

\* A faulty loop condition: one result is enough to leave the loop.
LoopExitsAfterOne(count) == count >= 1

\* for receivedCount < 2: the loop is left once both results are in.
LoopExits(count) == count >= 2

\* select, case vm := <-vmChan
SelectVM ==
    /\ collector.pc = "select"
    /\ ~LoopExits(collector.receivedCount)
    /\ vmChan # <<>>
    /\ collector' = [collector EXCEPT
                       !.vmOptions = Head(vmChan),
                       !.receivedCount = collector.receivedCount + 1]
    /\ vmChan' = Tail(vmChan)
    /\ UNCHANGED <<cliVars, fmtVars, goVM, goBM, bareMetalChan, errChan>>

\* select, case bm := <-bareMetalChan
SelectBM ==
    /\ collector.pc = "select"
    /\ ~LoopExits(collector.receivedCount)
    /\ bareMetalChan # <<>>
    /\ collector' = [collector EXCEPT
                       !.bareMetalOptions = Head(bareMetalChan),
                       !.receivedCount = collector.receivedCount + 1]
    /\ bareMetalChan' = Tail(bareMetalChan)
    /\ UNCHANGED <<cliVars, fmtVars, goVM, goBM, vmChan, errChan>>

\* select, case err := <-errChan: return nil, BareMetalOptions{}, err
SelectErr ==
    /\ collector.pc = "select"
    /\ ~LoopExits(collector.receivedCount)
    /\ errChan # <<>>
    /\ collector' = [collector EXCEPT
                       !.pc = "returned",
                       !.ret = Return(<<>>, <<>>, Head(errChan))]
    /\ errChan' = Tail(errChan)
    /\ UNCHANGED <<cliVars, fmtVars, goVM, goBM, vmChan, bareMetalChan>>

\* return vmOptions, bareMetalOptions, nil
OptReturn ==
    /\ collector.pc = "select"
    /\ LoopExits(collector.receivedCount)
    /\ collector' = [collector EXCEPT
                       !.pc = "returned",
                       !.ret = Return(collector.vmOptions,
                                      collector.bareMetalOptions, "")]
    /\ UNCHANGED <<cliVars, fmtVars, goVM, goBM, vmChan, bareMetalChan, errChan>>

OptNext ==
    \/ OptGetKey
    \/ OptSpawnVM
    \/ OptSpawnBM
    \/ GoVMFetch
    \/ GoVMSend
    \/ GoBMFetch
    \/ GoBMSend
    \/ SelectVM
    \/ SelectBM
    \/ SelectErr
    \/ OptReturn

OptionsSpec == Init /\ [][OptNext]_vars

\* The Go scheduler runs every goroutine that can take a step; nothing is
\* assumed of the network, so the two fetches may never return.
OptionsLiveSpec ==
    /\ OptionsSpec
    /\ WF_vars(OptGetKey)
    /\ WF_vars(OptSpawnVM)
    /\ WF_vars(OptSpawnBM)
    /\ WF_vars(GoVMSend)
    /\ WF_vars(GoBMSend)
    /\ WF_vars(SelectVM \/ SelectBM \/ SelectErr \/ OptReturn)

\* One record goes through the listing table and the detail view.
ViewSpec == Init /\ [][ViewNext]_vars

\* calculateUptime is called for a record, and again later.
UptimeSpec == Init /\ [][UptimeNext]_vars

\* The spot command prints the table of one marketplace response.
MarketSpec == Init /\ [][MarketNext]_vars

\* auth is run any number of times, with credential reads in between.
AuthSpec == Init /\ [][AuthNext]_vars

----------------------------------------------------------------------------
(* Properties.                                                             *)

\* The least element of a non-empty set of indices.
First(S) == CHOOSE i \in S : \A j \in S : i <= j

IsTerminateRequest(r) == r.ep \in TerminateEndpoints

TerminateRequests == SelectSeq(reqs, IsTerminateRequest)

\* The items of out that show instance data.
Rendered == { i \in 1..Len(out) : out[i].kind \in {"row", "detail", "json"} }

ErrorReported == \E i \in 1..Len(out) : out[i].kind = "error"

\* The detail view has run: instances <id> got past the three fetches.
DetailLookupDone ==
    /\ cmd.name = "instances"
    /\ Len(cmd.args) > 0
    /\ pc = "done"
    /\ Len(out) = 1
    /\ out[1].kind \in {"detail", "notfound"}

SpotMatches == { i \in 1..Len(spotInstances) :
                   spotInstances[i].id = cmd.args[1] }

VMMatches == { i \in 1..Len(vmInstances) :
                 Itoa(vmInstances[i].id) = cmd.args[1] }

BMMatches == { i \in 1..Len(bmInstances) :
                 Itoa(bmInstances[i].id) = cmd.args[1] }

\* C1: the detail lookup reports the first spot record whose ID is the
\* input; if there is none, the first such VM record; if there is none, the
\* first such bare-metal record; otherwise "not found".  When a VM record
\* and a bare-metal record carry the same numeric ID and the input names
\* it, the VM record is the one reported.
C1_SearchOrder ==
    DetailLookupDone =>
        /\ SpotMatches # {} =>
             out[1] = Detail("Spot", First(SpotMatches),
                             spotInstances[First(SpotMatches)], cmd.json)
        /\ SpotMatches = {} /\ VMMatches # {} =>
             out[1] = Detail("VM", First(VMMatches),
                             vmInstances[First(VMMatches)], cmd.json)
        /\ SpotMatches = {} /\ VMMatches = {} /\ BMMatches # {} =>
             out[1] = Detail("Bare Metal", First(BMMatches),
                             bmInstances[First(BMMatches)], cmd.json)
        /\ SpotMatches = {} /\ VMMatches = {} /\ BMMatches = {} =>
             out[1] = NotFound
        /\ (/\ SpotMatches = {}
            /\ \E i \in VMMatches, j \in 1..Len(bmInstances) :
                 vmInstances[i].id = bmInstances[j].id)
           => out[1].kind = "detail" /\ out[1].family = "VM"

\* C1, its case: a VM record and a bare-metal record share the ID asked
\* for, the VM listing holds two records and the second is the match.
C1_Witness ==
    /\ DetailLookupDone
    /\ SpotMatches = {}
    /\ VMMatches = {2}
    /\ BMMatches # {}
    /\ out[1].kind = "detail"
    /\ out[1].family = "VM"
    /\ out[1].idx = 2

\* The ID-only listings of an on-demand terminate both answered well: the
\* VM listing was fetched, and the bare-metal listing, when the routine
\* went on to fetch it, was fetched too.
ListingsFetched ==
    /\ vmListing.fetched /\ vmListing.ok
    /\ bmListing.fetched => bmListing.ok

InListing(listing, id) ==
    \E i \in 1..Len(listing.items) : listing.items[i].id = id

OnDemandTerminate(ep) ==
    Request(ep, apiKey,
            [kind |-> "terminate-ondemand",
             rentalId |-> Atoi(cmd.args[1]).val])

\* C2: for an ID that parses as an integer, with both ID-only listings
\* fetched, a finished terminate has sent its one terminate request to the
\* VM endpoint if the ID is in the VM listing, otherwise to the bare-metal
\* endpoint if the ID is in the bare-metal listing, and otherwise has sent
\* none and reports "not found".
C2_OnDemandRouting ==
    (/\ cmd.name = "terminate"
     /\ pc = "done"
     /\ ListingsFetched) =>
        /\ Atoi(cmd.args[1]).ok
        /\ InListing(vmListing, Atoi(cmd.args[1]).val) =>
             TerminateRequests = <<OnDemandTerminate(VMTerminateEP)>>
        /\ ~InListing(vmListing, Atoi(cmd.args[1]).val) =>
             /\ bmListing.fetched
             /\ InListing(bmListing, Atoi(cmd.args[1]).val) =>
                  TerminateRequests = <<OnDemandTerminate(BMTerminateEP)>>
             /\ ~InListing(bmListing, Atoi(cmd.args[1]).val) =>
                  /\ TerminateRequests = <<>>
                  /\ out = <<Error("not-found")>>

\* C2, its case: the ID is in both listings' reach, missing from the VM
\* listing and present in the bare-metal one, and the request went out.
C2_Witness ==
    /\ cmd.name = "terminate"
    /\ pc = "done"
    /\ ListingsFetched
    /\ Len(vmListing.items) > 0
    /\ ~InListing(vmListing, rentalID)
    /\ InListing(bmListing, rentalID)
    /\ TerminateRequests = <<OnDemandTerminate(BMTerminateEP)>>

\* C3: one run of terminate sends at most one terminate request; a request
\* goes to the spot endpoint exactly when the ID does not parse as an
\* integer, and then carries the ID string; a request to an on-demand
\* endpoint carries the parsed integer as rentalId; and a run with a stored
\* key and an ID that does not parse does send the spot request.
C3_OneTerminateRequest ==
    cmd.name = "terminate" =>
        /\ Len(TerminateRequests) <= 1
        /\ \A i \in 1..Len(TerminateRequests) :
             LET r == TerminateRequests[i]
             IN  /\ r.ep = SpotTerminateEP <=> ~Atoi(cmd.args[1]).ok
                 /\ r.ep = SpotTerminateEP =>
                      r.payload = [kind |-> "terminate-spot",
                                   id |-> cmd.args[1]]
                 /\ r.ep # SpotTerminateEP =>
                      /\ Atoi(cmd.args[1]).ok
                      /\ r.payload = [kind |-> "terminate-ondemand",
                                      rentalId |-> Atoi(cmd.args[1]).val]
        /\ (/\ pc = "done"
            /\ cmd.args[1] # <<>>
            /\ ~Atoi(cmd.args[1]).ok
            /\ config.exists /\ config.valid /\ config.api_key # <<>>)
           => /\ Len(TerminateRequests) = 1
              /\ TerminateRequests[1].ep = SpotTerminateEP

\* C3, its case: an input with a plus sign parsed to rental 5 and the one
\* request went to an on-demand endpoint.
C3_Witness ==
    /\ cmd.name = "terminate"
    /\ pc = "done"
    /\ cmd.args[1] = <<"+", "5">>
    /\ Len(TerminateRequests) = 1
    /\ TerminateRequests[1].ep = VMTerminateEP
    /\ TerminateRequests[1].payload.rentalId = 5

ListingFetchFailed ==
    \/ vmListing.fetched /\ ~vmListing.ok
    \/ bmListing.fetched /\ ~bmListing.ok

\* C4: in on-demand terminate routing, once either ID-only listing fetch
\* has failed no terminate request is ever sent and the outcome is never
\* "not found"; a finished run has reported an error.
C4_ListingFailureAborts ==
    (cmd.name = "terminate" /\ ListingFetchFailed) =>
        /\ TerminateRequests = <<>>
        /\ \A i \in 1..Len(out) : out[i] # Error("not-found")
        /\ pc = "done" => ErrorReported

\* A collection of the instances command failed: its request came back
\* with a transport error or a status outside 2xx, or its body is not JSON.
CollectionFailed(ep) ==
    /\ resp[ep].got
    /\ \/ resp[ep].err
       \/ ~Is2xx(resp[ep].status)
       \/ resp[ep].body.shape = "garbage"

\* C5: in the instances command, once the fetch or parse of one of the
\* three collections has failed nothing of any collection is rendered and
\* the finished command has reported the failure; whatever is rendered is
\* rendered after all three came back well.
C5_FailureAbortsAll ==
    cmd.name = "instances" =>
        /\ (\E ep \in ListEndpoints : CollectionFailed(ep)) =>
             /\ Rendered = {}
             /\ pc # "show"
             /\ pc = "done" => ErrorReported
        /\ Rendered # {} =>
             \A ep \in ListEndpoints : resp[ep].got /\ ~CollectionFailed(ep)

\* C6: for each of the three collection fetches of the instances command,
\* after a response whose status is outside 2xx the body is never taken as
\* a collection: it is neither handed to the parser nor to the rendering,
\* no instance is read out of it, and the finished command has reported an
\* error and rendered nothing.
C6_Non2xxIsError ==
    cmd.name = "instances" =>
        \A ep \in ListEndpoints :
            (resp[ep].got /\ ~resp[ep].err /\ ~Is2xx(resp[ep].status)) =>
                /\ pc \notin {"spot_parse", "show"}
                /\ spotInstances = <<>> /\ vmInstances = <<>>
                /\ bmInstances = <<>>
                /\ pc = "done" => ErrorReported /\ Rendered = {}

NoKeyStored == ~config.exists \/ config.api_key = <<>>

\* The command line passes the argument checks that instances, terminate
\* and rent make before they read the credential.
ArgsAccepted ==
    CASE cmd.name = "terminate" -> cmd.args[1] # <<>>
      [] cmd.name \in {"rent", "rent spot"} -> ValidatePorts(cmd.ports).ok
      [] cmd.name = "rent ondemand" ->
            ValidateOnDemand(cmd.instanceType, cmd.networkType)
      [] OTHER -> TRUE

Returned == collector.pc = "returned"

\* Both options fetches have finished: each goroutine has its result.
BothFetched ==
    /\ goVM.pc \in {"send", "exited"}
    /\ goBM.pc \in {"send", "exited"}

SomeFetchFailed ==
    \/ goVM.pc \in {"send", "exited"} /\ ~goVM.res.ok
    \/ goBM.pc \in {"send", "exited"} /\ ~goBM.res.ok

\* What fetchOnDemandOptions may have returned, given the two goroutines.
C9_Safety ==
    (Returned /\ collector.ret.err # "credential") =>
        /\ collector.ret.err = "" =>
             /\ goVM.pc = "exited" /\ goVM.res.ok
             /\ goBM.pc = "exited" /\ goBM.res.ok
             /\ collector.ret.vm = goVM.res.val
             /\ collector.ret.bm = goBM.res.val
        /\ SomeFetchFailed =>
             /\ collector.ret.err # ""
             /\ collector.ret.vm = <<>>
             /\ collector.ret.bm = <<>>
        /\ collector.ret.err # "" =>
             /\ SomeFetchFailed
             /\ collector.ret.err \in
                  { g.res.err : g \in { h \in {goVM, goBM} :
                                          h.pc = "exited" /\ ~h.res.ok } }

\* C9: fetchOnDemandOptions returns a successful pair only after both
\* goroutines have delivered a result, the VM slot holding what the VM
\* fetch produced and the bare-metal slot what the bare-metal fetch
\* produced; once a fetch has failed it returns an error, that of a failed
\* fetch, and no results; and whenever both fetches have finished it
\* eventually returns.
C9_JoinBoth == []C9_Safety /\ (BothFetched ~> Returned)

\* C9, its case: both fetches delivered, different results, and the pair
\* has been returned.
C9_Witness ==
    /\ Returned
    /\ collector.ret.err = ""
    /\ collector.ret.vm = <<[gpuCount |-> 1]>>
    /\ collector.ret.bm = <<[gpuCount |-> 8]>>

\* The on-demand records the input names when it is read as an integer.
ParsedMatches(instances) ==
    { i \in 1..Len(instances) :
        /\ Atoi(cmd.args[1]).ok
        /\ instances[i].id = Atoi(cmd.args[1]).val }

IsNumeric(s) == s # <<>> /\ \A i \in 1..Len(s) : IsDigit(s[i])

\* C10: the detail lookup reports a VM or bare-metal record exactly when
\* the input, parsed as an integer, equals the record's ID, so "05" and
\* "+5" find rental 5; an input that does not parse as an integer is never
\* reported as a VM or bare-metal record; a purely numeric input is never
\* reported as a spot record whose ID is not numeric.
C10_MatchByParsedInteger ==
    DetailLookupDone =>
        /\ (SpotMatches = {} /\ ParsedMatches(vmInstances) # {}) =>
             out[1] = Detail("VM", First(ParsedMatches(vmInstances)),
                             vmInstances[First(ParsedMatches(vmInstances))],
                             cmd.json)
        /\ (/\ SpotMatches = {}
            /\ ParsedMatches(vmInstances) = {}
            /\ ParsedMatches(bmInstances) # {}) =>
             out[1] = Detail("Bare Metal", First(ParsedMatches(bmInstances)),
                             bmInstances[First(ParsedMatches(bmInstances))],
                             cmd.json)
        /\ (out[1].kind = "detail" /\ out[1].family \in {"VM", "Bare Metal"})
             => Atoi(cmd.args[1]).ok
        /\ (out[1].kind = "detail" /\ out[1].family = "Spot"
              /\ IsNumeric(cmd.args[1]))
             => IsNumeric(out[1].record.id)

\* A record has been through the listing table and the detail view.
Viewed == viewPc = "done"

OnDemandViewed == Viewed /\ instance.family \in {"vm", "bare-metal"}

\* The number a displayed count or price spells, its digits read in order.
Spelled(text) == DigitsVal(SelectSeq(text, IsDigit), 0)

\* C11: for a bare-metal record with node count greater than 1, the detail
\* view shows a total GPU count, a per-node GPU count and the node count,
\* and the total equals the per-node count multiplied by the node count,
\* whichever field the per-node count came from.
C11_TotalIsPerNodeTimesNodes ==
    (Viewed /\ instance.family = "bare-metal" /\ instance.nodeCount > 1) =>
        /\ details.gpu.kind = "total"
        /\ Spelled(details.gpu.nodes) = instance.nodeCount
        /\ Spelled(details.gpu.total) =
             Spelled(details.gpu.perNode) * Spelled(details.gpu.nodes)

\* The GPU count of an on-demand record: the first non-zero value among
\* the per-node spec count, the sum of the GPU mapping, the flat gpu_count.
FirstNonZeroCount(r) ==
    IF r.specsPerNode.present /\ r.specsPerNode.gpuCount # 0
    THEN r.specsPerNode.gpuCount
    ELSE IF r.resources.present /\ SumCounts(r.resources.gpus) # 0
    THEN SumCounts(r.resources.gpus)
    ELSE r.gpuCount

\* The GPU count a row shows: the number before the node multiplier.
RowCount(text) ==
    IF \E i \in 1..Len(text) : text[i] = "x"
    THEN SubSeq(text, 1, (CHOOSE i \in 1..Len(text) : text[i] = "x") - 1)
    ELSE text

\* C12: the GPU count shown for an on-demand record, in the listing table
\* and in the detail view, is the first non-zero value among the per-node
\* spec count, the sum of all counts of the GPU mapping and the flat
\* gpu_count field, a zero or absent source falling through to the next.
C12_CountFirstNonZero ==
    OnDemandViewed =>
        /\ RowCount(row.count) = Itoa(FirstNonZeroCount(instance))
        /\ details.gpu.kind = "total" =>
             details.gpu.perNode = Itoa(FirstNonZeroCount(instance))
        /\ details.gpu.kind = "count" =>
             details.gpu.total = Itoa(FirstNonZeroCount(instance))

\* The non-empty GPU model strings a record carries, source by source.
SpecModels(r) ==
    IF r.family # "spot" /\ r.specsPerNode.present
    THEN {r.specsPerNode.gpuModel} \ {<<>>}
    ELSE {}

MapModels(r) ==
    IF r.family # "spot" /\ r.resources.present
    THEN DOMAIN r.resources.gpus \ {<<>>}
    ELSE {}

HardwareModels(r) ==
    IF r.family = "spot" /\ Len(r.gpus) > 0
    THEN {r.gpus[1].model} \ {<<>>}
    ELSE {}

FamilyDefault(r) ==
    IF r.family = "spot" THEN NotApplicable ELSE DefaultGPUModel

\* The models the resolution order allows: those of the first source that
\* has one, otherwise the default of the family.
FirstNonEmptyModels(r) ==
    IF SpecModels(r) # {} THEN SpecModels(r)
    ELSE IF MapModels(r) # {} THEN MapModels(r)
    ELSE IF HardwareModels(r) # {} THEN HardwareModels(r)
    ELSE {FamilyDefault(r)}

\* C13: the GPU model shown for a record, in the listing table and in the
\* detail view, is never empty and never left out, and it is the first
\* non-empty value among the per-node spec model, a key of the GPU mapping
\* and the first hardware GPU model, or else the default of the family (as
\* the upstream spells it or after the cleanup).
C13_ModelFirstNonEmpty ==
    Viewed =>
        /\ row.gpuModel # <<>>
        /\ details.gpuModel.printed
        /\ details.gpuModel.text # <<>>
        /\ \A shown \in {row.gpuModel, details.gpuModel.text} :
             \E m \in FirstNonEmptyModels(instance) :
                shown \in {m, CleanGPUModel(m)}

\* C14: whenever a view shows a model that a record of any family carries,
\* it shows it after the cleanup: without the prefixes NVIDIA-GeForce- and
\* NVIDIA- and with h100-sxm5-80gb in upper case, so that
\* NVIDIA-GeForce-h100-sxm5-80gb is never shown as it is.
C14_ModelCleaned ==
    Viewed =>
        \A shown \in {row.gpuModel}
                     \cup (IF details.gpuModel.printed
                           THEN {details.gpuModel.text} ELSE {}) :
            /\ shown # ModelGeForceH100
            /\ shown \in
                 { CleanGPUModel(m) :
                     m \in SpecModels(instance) \cup MapModels(instance)
                           \cup HardwareModels(instance) }
                 \cup {FamilyDefault(instance), <<>>}

\* C15: the price shown, in hundredths, is amount times GPU count for a
\* spot record and costPerHour for a VM or bare-metal record whatever its
\* GPU count or node count, in the listing table and in the detail view;
\* and it has the form $D.CC/hr.
C15_Price ==
    Viewed =>
        /\ \A shown \in {row.price, details.price} :
             /\ Spelled(shown) =
                  IF instance.family = "spot"
                  THEN instance.amount * instance.gpuCount
                  ELSE instance.costPerHour
             /\ Head(shown) = "$"
             /\ SubSeq(shown, Len(shown) - 5, Len(shown)) =
                  <<".">> \o SubSeq(shown, Len(shown) - 4, Len(shown) - 3)
                    \o <<"/", "h", "r">>
             /\ \A i \in (2..Len(shown) - 6) \cup
                         {Len(shown) - 4, Len(shown) - 3} : IsDigit(shown[i])
        /\ (instance.family = "spot" /\ instance.amount = 150
              /\ instance.gpuCount = 2)
             => row.price = <<"$", "3", ".", "0", "0", "/", "h", "r">>

\* C15, its case: a bare-metal record of 4 nodes with 8 GPUs each and
\* costPerHour 149 is shown at $1.49/hr in both views.
C15_Witness ==
    /\ Viewed
    /\ instance.family = "bare-metal"
    /\ instance.nodeCount = 4
    /\ instance.specsPerNode.present
    /\ instance.specsPerNode.gpuCount = 8
    /\ row.price = <<"$", "1", ".", "4", "9", "/", "h", "r">>
    /\ details.price = row.price

\* C16: the SSH lines of an on-demand record in the detail view follow the
\* first applicable rule: (a) the inline SSH command when non-empty; (b)
\* with node networking and a username, ssh username@public_ip per record,
\* one unlabelled line for exactly one record and otherwise one line per
\* record labelled Node 1..n in upstream order; (c) ssh user@public_ip
\* from the public IP field; (d) Available when ready for a starting-up
\* status; (e) SSH details not available.
C16_SSHOrder ==
    OnDemandViewed =>
        LET r == instance
            n == Len(r.nodeNetworking)
            a == r.sshCommand # ""
            b == ~a /\ n > 0 /\ r.username # ""
            c == ~a /\ ~b /\ r.publicIP # ""
            d == ~a /\ ~b /\ ~c /\
                 ToLower(r.status) \in
                   {StatusPending, StatusStarting, StatusProvisioning,
                    StatusInitializing}
            e == ~a /\ ~b /\ ~c /\ ~d
        IN  /\ a => details.ssh = <<[n |-> 0, text |-> <<r.sshCommand>>]>>
            /\ (b /\ n = 1) =>
                 details.ssh =
                   <<[n |-> 0,
                      text |-> <<"ssh ", r.username, "@",
                                 r.nodeNetworking[1].publicIP>>]>>
            /\ (b /\ n > 1) =>
                 /\ Len(details.ssh) = n
                 /\ \A i \in 1..n :
                      details.ssh[i] =
                        [n |-> i,
                         text |-> <<"ssh ", r.username, "@",
                                    r.nodeNetworking[i].publicIP>>]
            /\ c => details.ssh =
                      <<[n |-> 0,
                         text |-> <<"ssh ", "user", "@", r.publicIP>>]>>
            /\ d => details.ssh =
                      <<[n |-> 0, text |-> <<"Available when ready">>]>>
            /\ e => details.ssh =
                      <<[n |-> 0, text |-> <<"SSH details not available">>]>>

\* C16, its case: two networking records, a username and a public IP, no
\* inline command: rule (b) gives the lines Node 1 and Node 2.
C16_Witness ==
    /\ OnDemandViewed
    /\ instance.sshCommand = ""
    /\ instance.username # ""
    /\ instance.publicIP # ""
    /\ Len(instance.nodeNetworking) = 2
    /\ Len(details.ssh) = 2
    /\ details.ssh[1].n = 1
    /\ details.ssh[2].n = 2
    /\ details.ssh[1].text # details.ssh[2].text

\* The record carries no SSH command, no node networking, no username and
\* no public IP.
NoSSHFields(r) ==
    IF r.family = "spot" THEN r.sshCommand = ""
    ELSE /\ r.sshCommand = ""
         /\ r.nodeNetworking = <<>>
         /\ r.username = ""
         /\ r.publicIP = ""

\* C17: for a record of any family with no SSH field populated, the SSH
\* string of the listing table and of the detail view is Available when
\* ready when the lower-cased status is pending, starting, provisioning or
\* initializing, and SSH details not available for any other status; it is
\* never empty.
C17_SSHPlaceholder ==
    (Viewed /\ NoSSHFields(instance)) =>
        LET expected ==
              IF ToLower(instance.status) \in
                   {StatusPending, StatusStarting, StatusProvisioning,
                    StatusInitializing}
              THEN <<"Available when ready">>
              ELSE <<"SSH details not available">>
        IN  /\ row.sshCommand # <<>>
            /\ row.sshCommand = expected
            /\ details.ssh = <<[n |-> 0, text |-> expected]>>

\* C18: whenever the status of an on-demand record is pending, starting or
\* initializing, the SSH string of the listing table and of the detail
\* view is the Available when ready placeholder, whatever SSH command,
\* node networking, username or public IP the record carries.
C18_EarlyStatesForcePlaceholder ==
    (/\ OnDemandViewed
     /\ ToLower(instance.status) \in
          {StatusPending, StatusStarting, StatusInitializing}) =>
        /\ row.sshCommand = <<"Available when ready">>
        /\ details.ssh = <<[n |-> 0, text |-> <<"Available when ready">>]>>

TimeUnits == {"d", "h", "m"}

IsTimeUnit(c) == c \in TimeUnits

\* The units of an uptime label, in order.
Units(label) == SelectSeq(label, IsTimeUnit)

\* The days, hours and minutes an uptime label denotes.
RECURSIVE ReadLabel(_, _, _)
ReadLabel(label, digits, val) ==
    IF label = <<>> THEN val
    ELSE IF IsDigit(Head(label))
    THEN ReadLabel(Tail(label), Append(digits, Head(label)), val)
    ELSE IF IsTimeUnit(Head(label))
    THEN ReadLabel(Tail(label), <<>>,
                   [val EXCEPT ![Head(label)] = DigitsVal(digits, 0)])
    ELSE ReadLabel(Tail(label), <<>>, val)

LabelValue(label) == ReadLabel(label, <<>>, [u \in TimeUnits |-> 0])

\* (days, hours, minutes) of v is not after that of w.
NotAfter(v, w) ==
    \/ v["d"] < w["d"]
    \/ v["d"] = w["d"] /\ v["h"] < w["h"]
    \/ v["d"] = w["d"] /\ v["h"] = w["h"] /\ v["m"] <= w["m"]

\* The span calculateUptime measures, in seconds.
Span == ResolveEnd(endTime, now) - ParseTime(startTime).t

\* The label of a span that is not negative.
C19_Label ==
    (uptimePc = "returned" /\ ParseTime(startTime).ok /\ Span >= 0) =>
        LET wholeHours == Span \div 3600
            v == LabelValue(uptime)
        IN  /\ (\E i \in 1..Len(uptime) : uptime[i] = "d") <=> Span >= 86400
            /\ Span >= 86400 =>
                 /\ Units(uptime) = <<"d", "h">>
                 /\ v["d"] = wholeHours \div 24
                 /\ v["h"] = wholeHours % 24
            /\ (Span >= 3600 /\ Span < 86400) =>
                 /\ Units(uptime) = <<"h", "m">>
                 /\ v["h"] = wholeHours
                 /\ v["m"] = (Span \div 60) % 60
            /\ Span < 3600 =>
                 /\ Units(uptime) = <<"m">>
                 /\ v["m"] = Span \div 60

\* A later end for the same start does not give an earlier label.
C19_Monotone ==
    (/\ uptimePc = "returned" /\ uptimePc' = "returned"
     /\ startTime' = startTime
     /\ ParseTime(startTime).ok
     /\ Span >= 0
     /\ ResolveEnd(endTime', now') >= ResolveEnd(endTime, now)) =>
        NotAfter(LabelValue(uptime), LabelValue(uptime'))

\* C19: for a start that parses and an end not before it, the uptime label
\* is {d}d {h}h exactly when the span is at least 86400 seconds, with d the
\* whole hours divided by 24 and h the whole hours modulo 24; otherwise
\* {h}h {m}m when the span is at least one hour; otherwise {m}m; and the
\* (days, hours, minutes) the label denotes never decreases when the end
\* increases with the start fixed.
C19_UptimeLabel == []C19_Label /\ [][C19_Monotone]_vars

\* C19, its case: an end 2 days and 1 hour after the start, after a call
\* with an earlier end.
C19_Witness ==
    /\ uptimePc = "returned"
    /\ ParseTime(startTime).ok
    /\ ParseTime(endTime).ok
    /\ Span = 2 * 86400 + 3600
    /\ uptime = <<"2", "d", " ", "1", "h">>

\* C20: calculateUptime returns N/A whenever the start string parses under
\* none of the layouts or the resolved end is before the start; its label
\* never holds a minus sign; and every call returns a label, so the view
\* that called it goes on.
C20_UnknownUptime ==
    /\ uptimePc = "called" => ENABLED ReturnUptime
    /\ uptimePc = "returned" =>
         /\ uptime # <<>>
         /\ \A i \in 1..Len(uptime) : uptime[i] # "-"
         /\ ~ParseTime(startTime).ok => uptime = <<"N", "/", "A">>
         /\ (ParseTime(startTime).ok /\ Span < 0) =>
              uptime = <<"N", "/", "A">>

\* C20, its case: both strings parse and the end is a day before the
\* start.
C20_Witness ==
    /\ uptimePc = "returned"
    /\ ParseTime(startTime).ok
    /\ ParseTime(endTime).ok
    /\ Span = 0 - 86400
    /\ uptime = <<"N", "/", "A">>

\* The label in uptime is the one of a span of the given seconds.
Labelled(span) ==
    IF span < 0 THEN uptime = <<"N", "/", "A">>
    ELSE LET v == LabelValue(uptime)
         IN  /\ uptime # <<"N", "/", "A">>
             /\ span >= 86400 => v["d"] * 24 + v["h"] = span \div 3600
             /\ span < 86400 =>
                  /\ v["d"] = 0
                  /\ v["h"] * 60 + v["m"] = span \div 60

\* The end string is there and parses under one of the layouts.
EndGiven ==
    /\ endTime.form \notin {"nil", "empty"}
    /\ \E i \in 1..Len(Layouts) : Accepts(Layouts[i], endTime)

\* The label is that of end - start when the end is given, and that of
\* now - start otherwise.
C21_EndOrNow ==
    (uptimePc = "returned" /\ ParseTime(startTime).ok) =>
        /\ EndGiven => Labelled(endTime.t - startTime.t)
        /\ ~EndGiven => Labelled(now - startTime.t)

\* A call for the same strings at another time gives the same label.
C21_ClockFree ==
    (/\ uptimePc = "returned" /\ uptimePc' = "returned"
     /\ startTime' = startTime /\ endTime' = endTime
     /\ EndGiven) =>
        uptime' = uptime

\* C21: when the end string is present, non-empty and parses, the uptime
\* label is that of end - start and a call at another wall-clock time gives
\* the same label; the label is that of now - start only when the end
\* string is absent, empty or parses under no layout.
C21_EndBeforeNow == []C21_EndOrNow /\ [][C21_ClockFree]_vars

\* C21, its case: an end one hour after the start, shown two days later.
C21_Witness ==
    /\ uptimePc = "returned"
    /\ ParseTime(startTime).ok
    /\ EndGiven
    /\ endTime.t - startTime.t = 3600
    /\ now - endTime.t >= 86400
    /\ uptime = <<"1", "h", " ", "0", "m">>

\* The listing tables were printed: instances without an ID and without
\* --json got past the three fetches.
ListingShown ==
    /\ cmd.name = "instances"
    /\ Len(cmd.args) = 0
    /\ ~cmd.json
    /\ pc = "done"
    /\ ~ErrorReported

\* The rows of a table, and of a table tagged with a family, in the order
\* they are printed.
RowsOf(tbl) ==
    SelectSeq(out, LAMBDA o : o.kind = "row" /\ o.tbl = tbl)

TaggedRows(family) ==
    SelectSeq(RowsOf("ON-DEMAND"), LAMBDA o : o.family = family)

\* The rows are those of the records, one each, in the records' order.
RowPerRecord(rows, ids) ==
    /\ Len(rows) = Len(ids)
    /\ \A i \in 1..Len(ids) : rows[i].id = ids[i]

\* C22: the aggregate listing prints exactly one row per fetched record:
\* the spot table holds the rows of the spot records of the response in
\* their order, the on-demand table the rows of the VM records tagged
\* Virtual Machine and of the bare-metal records tagged Bare Metal, each
\* family in the order it was fetched, and there is no other row.
C22_OneRowPerRecord ==
    ListingShown =>
        /\ spotInstances = spotResponse.items
        /\ RowPerRecord(RowsOf("SPOT"),
                        [i \in 1..Len(spotInstances) |->
                            spotInstances[i].id])
        /\ RowPerRecord(TaggedRows("Virtual Machine"),
                        [i \in 1..Len(vmInstances) |->
                            NatToStr(vmInstances[i].id)])
        /\ RowPerRecord(TaggedRows("Bare Metal"),
                        [i \in 1..Len(bmInstances) |->
                            NatToStr(bmInstances[i].id)])
        /\ Len(RowsOf("ON-DEMAND")) = Len(vmInstances) + Len(bmInstances)
        /\ Cardinality(Rendered) =
             Len(spotInstances) + Len(vmInstances) + Len(bmInstances)

\* C22, its case: two VM rentals fetched in the order 12, 5, one of them
\* also among the bare-metal rentals, and two spot instances.
C22_Witness ==
    /\ ListingShown
    /\ Len(spotInstances) = 2
    /\ spotInstances[1].id # spotInstances[2].id
    /\ Len(vmInstances) = 2
    /\ vmInstances[1].id = 12
    /\ vmInstances[2].id = 5
    /\ Len(bmInstances) = 1
    /\ Len(RowsOf("ON-DEMAND")) = 3

\* C23: every view of a VM record shows the network type Ethernet; every
\* view of a bare-metal record shows its network-type field with the first
\* letter in upper case when the field is set, and Standard when it is not.
C23_NetworkLabel ==
    OnDemandViewed =>
        LET label ==
              IF instance.family = "vm"
              THEN <<"E", "t", "h", "e", "r", "n", "e", "t">>
              ELSE IF instance.networkType # <<>>
              THEN <<"I", "n", "f", "i", "n", "i", "b", "a", "n", "d">>
              ELSE <<"S", "t", "a", "n", "d", "a", "r", "d">>
        IN  /\ row.networking = label
            /\ details.network.printed => details.network.text = label

\* The collections terminate has looked at, as the detail view would get
\* them, for each spot collection there may be.
SameCollections ==
    { [spot |-> sp, vm |-> vmListing.items, bm |-> bmListing.items] :
        sp \in SeqsUpTo(SpotRecords, MaxLen) }

\* What the detail view resolves the ID of this terminate run to.
DetailOf(c) == showInstanceDetails(c.spot, c.vm, c.bm, cmd.args[1], FALSE)[1]

\* C24: when terminate <id> has sent a terminate request for a rental to
\* the VM or the bare-metal endpoint, the detail view of the same ID over
\* the same collections shows a record of that family with that rental ID;
\* when it has sent a request to the spot endpoint, the detail view shows
\* the spot record of that ID wherever the spot collection holds one.
C24_DetailTerminateAgree ==
    \A i \in 1..Len(reqs) : \A c \in SameCollections :
        /\ reqs[i].ep = VMTerminateEP =>
             /\ DetailOf(c).kind = "detail"
             /\ DetailOf(c).family = "VM"
             /\ DetailOf(c).record.id = reqs[i].payload.rentalId
        /\ reqs[i].ep = BMTerminateEP =>
             /\ DetailOf(c).kind = "detail"
             /\ DetailOf(c).family = "Bare Metal"
             /\ DetailOf(c).record.id = reqs[i].payload.rentalId
        /\ (/\ reqs[i].ep = SpotTerminateEP
            /\ \E k \in 1..Len(c.spot) : c.spot[k].id = cmd.args[1]) =>
             /\ DetailOf(c).kind = "detail"
             /\ DetailOf(c).family = "Spot"
             /\ DetailOf(c).record.id = reqs[i].payload.id

\* The total a row's count denotes: the product when it has a node
\* multiplier.
RowTotal(text) ==
    IF \E i \in 1..Len(text) : text[i] = "x"
    THEN LET x == CHOOSE i \in 1..Len(text) : text[i] = "x"
         IN  Spelled(SubSeq(text, 1, x - 1))
               * Spelled(SubSeq(text, x + 1, Len(text)))
    ELSE Spelled(text)

\* C25: the listing row and the detail view of one on-demand record show
\* the same per-node GPU count, the same total GPU count, the same GPU
\* model and the same SSH string or placeholder.
C25_TableDetailAgree ==
    OnDemandViewed =>
        /\ RowCount(row.count) =
             (IF details.gpu.kind = "total" THEN details.gpu.perNode
              ELSE details.gpu.total)
        /\ RowTotal(row.count) = Spelled(details.gpu.total)
        /\ details.gpuModel.printed
        /\ details.gpuModel.text = row.gpuModel
        /\ row.sshCommand =
             Join([i \in 1..Len(details.ssh) |-> details.ssh[i].text],
                  <<"\n">>)

\* A goroutine that is at its send after fetchOnDemandOptions returned,
\* when nothing receives any more, can still send.
C26_RoomAfterReturn ==
    /\ (Returned /\ goVM.pc = "send") => ENABLED GoVMSend
    /\ (Returned /\ goBM.pc = "send") => ENABLED GoBMSend

\* C26: neither goroutine of fetchOnDemandOptions blocks forever on its
\* channel send: a goroutine that reaches its send while the collector has
\* already returned finds room in the channel, and every goroutine that
\* reaches its send completes it and exits.
C26_SendsComplete ==
    /\ []C26_RoomAfterReturn
    /\ (goVM.pc = "send" ~> goVM.pc = "exited")
    /\ (goBM.pc = "send" ~> goBM.pc = "exited")

\* C26, its case: both fetches failed, the collector returned on the first
\* error, and the second goroutine has sent its error and exited.
C26_Witness ==
    /\ Returned
    /\ goVM.pc = "exited" /\ ~goVM.res.ok
    /\ goBM.pc = "exited" /\ ~goBM.res.ok
    /\ Len(errChan) = 1

\* C27: the detail view of a bare-metal record that has per-node specs and
\* a node count of 0 or 1 shows one GPU count, the per-node GPU count of
\* the specs, which is also the count of the record's listing row.
C27_SingleNodeCount ==
    (/\ Viewed
     /\ instance.family = "bare-metal"
     /\ instance.specsPerNode.present
     /\ instance.nodeCount <= 1) =>
        /\ details.gpu.kind = "count"
        /\ details.gpu.total = Itoa(instance.specsPerNode.gpuCount)
        /\ details.gpu.total = row.count

\* A --ports value that is a decimal integer from 1 to 65535.
ValidPort(p) ==
    LET digits == IF p # <<>> /\ Head(p) \in {"+", "-"} THEN Tail(p) ELSE p
    IN  /\ IsNumeric(digits)
        /\ ~(p # <<>> /\ Head(p) = "-")
        /\ DigitsVal(digits, 0) >= 1
        /\ DigitsVal(digits, 0) <= 65535

\* The flags of this rent command line are valid.
RentFlagsValid ==
    IF cmd.name = "rent ondemand"
    THEN \/ cmd.instanceType = "virtual-machine"
         \/ /\ cmd.instanceType = "bare-metal"
            /\ cmd.networkType \in {"ethernet", "infiniband"}
    ELSE /\ Len(cmd.ports) <= 2
         /\ \A i \in 1..Len(cmd.ports) : ValidPort(cmd.ports[i])

\* The endpoint of the marketplace and instance type of this rent.
RentTarget ==
    IF cmd.name \in {"rent", "rent spot"}
    THEN "POST /v1/marketplace/instances/create"
    ELSE IF cmd.instanceType = "virtual-machine"
    THEN "POST /v2/marketplace/virtual-machine-rentals"
    ELSE "POST /v2/marketplace/bare-metal-rentals"

\* C28: a rent whose flags fail validation (more than 2 ports, a port that
\* is no integer or lies outside 1..65535, an instance type other than
\* virtual-machine and bare-metal, bare-metal with a network type other
\* than ethernet and infiniband) issues no request; no rent issues more
\* than one request; and a rent with valid flags and a stored credential
\* has, by the time it ends, issued exactly one request, the create request
\* of its marketplace and instance type.
C28_RentValidated ==
    cmd.name \in {"rent", "rent spot", "rent ondemand"} =>
        /\ ~RentFlagsValid => reqs = <<>>
        /\ Len(reqs) <= 1
        /\ \A i \in 1..Len(reqs) : reqs[i].ep = RentTarget
        /\ (/\ RentFlagsValid
            /\ config.exists /\ config.valid /\ config.api_key # <<>>
            /\ pc = "done") =>
             Len(reqs) = 1

\* C28, its cases: a bare-metal rent over infiniband that has sent its one
\* create request and ended.
C28_Witness ==
    /\ cmd.name = "rent ondemand"
    /\ cmd.instanceType = "bare-metal"
    /\ cmd.networkType = "infiniband"
    /\ pc = "done"
    /\ Len(reqs) = 1
    /\ reqs[1].ep = BMCreateEP

\* The key without its leading and trailing spaces.
Trimmed(k) ==
    LET inner == { i \in 1..Len(k) : k[i] # " " }
    IN  IF inner = {} THEN <<>>
        ELSE SubSeq(k, First(inner),
                    CHOOSE j \in inner : \A i \in inner : i <= j)

\* A credential read that follows a successful auth gives the trimmed key,
\* and no credential read gives an empty key.
C29_ReadsSavedKey ==
    (cmd.name = "auth" /\ pc = "key_read") =>
        /\ out[1].kind = "success" =>
             out[2] = [kind |-> "key", key |-> Trimmed(cmd.args[1])]
        /\ out[2].kind = "key" => out[2].key # <<>>

\* auth with a key that is empty after trimming does not touch the file.
C29_EmptyKeyKeepsConfig ==
    (pc = "auth_run" /\ Trimmed(cmd.args[1]) = <<>>) => config' = config

\* C29: after auth k has succeeded, k not empty once its surrounding
\* whitespace is trimmed, GetAPIKey returns exactly the trimmed k, until the
\* next auth succeeds; auth with a key that is empty after trimming leaves
\* the stored configuration unchanged; GetAPIKey never returns an empty key.
C29_CredentialRoundTrip ==
    []C29_ReadsSavedKey /\ [][C29_EmptyKeyKeepsConfig]_vars

\* The fetched instance a row belongs to.
RowInstance(r) == marketInstances[r.node]

\* The first GPU model of an instance, empty when it has no GPU.
FirstModel(x) == IF x.gpus = <<>> THEN <<>> ELSE x.gpus[1].model

\* Model a is not after model b in the order of strings.
ModelNotAfter(a, b) ==
    \E k \in 0..Len(a) :
        /\ k <= Len(b)
        /\ SubSeq(a, 1, k) = SubSeq(b, 1, k)
        /\ \/ k = Len(a)
           \/ k < Len(b) /\ Byte(a[k + 1]) < Byte(b[k + 1])

\* C30: the table of the spot command has exactly one row for every
\* fetched instance with gpus_total - gpus_reserved > 0, and with --all for
\* every fetched instance, and no other row; its rows are in ascending
\* order of price, rows of one price in the order of their first GPU model,
\* an instance without GPUs counting as the empty model.
C30_MarketTable ==
    marketPc = "printed" =>
        /\ \A i \in 1..Len(marketTable) :
             marketTable[i].node \in 1..Len(marketInstances)
        /\ \A i, j \in 1..Len(marketTable) :
             i # j => marketTable[i].node # marketTable[j].node
        /\ { marketTable[i].node : i \in 1..Len(marketTable) } =
             { n \in 1..Len(marketInstances) :
                 \/ showAll
                 \/ marketInstances[n].gpusTotal
                      - marketInstances[n].gpusReserved > 0 }
        /\ \A i, j \in 1..Len(marketTable) :
             i < j =>
               LET x == RowInstance(marketTable[i])
                   y == RowInstance(marketTable[j])
               IN  \/ x.amount < y.amount
                   \/ /\ x.amount = y.amount
                      /\ ModelNotAfter(FirstModel(x), FirstModel(y))

\* C30, its case: three instances fetched, the cheapest last; one has no
\* GPU available and is left out, and the table is not in fetch order.
C30_Witness ==
    /\ marketPc = "printed"
    /\ ~showAll
    /\ Len(marketInstances) = 3
    /\ marketInstances[1].amount = 150
    /\ marketInstances[2].gpusReserved = 8
    /\ marketInstances[3].amount = 99
    /\ Len(marketTable) = 2
    /\ marketTable[1].node = 3
    /\ marketTable[2].node = 1

====
